---- MODULE Spec2Model ----
(***************************************************************************)
(* Lexical normalization and retrieval engine of the Quran chatbot:        *)
(*   utils/arabic.py, services/retrievers/morphology_retriever.py,         *)
(*   services/extractors/root_ayah_extraction.py,                          *)
(*   services/extractors/quranic_word_extractor.py,                        *)
(*   services/retrievers/dispatcher.py.                                    *)
(*                                                                         *)
(* A string is a sequence of characters; a character is written by a short *)
(* ASCII name:                                                             *)
(*   "A"  U+0627 alif            "Ah" U+0623 alif with hamza above         *)
(*   "Ai" U+0625 alif, hamza below   "Am" U+0622 alif with madda           *)
(*   "Aw" U+0671 alif wasla      "Y"  U+064A ya    "Ym" U+0649 alif maqsura*)
(*   "Yh" U+0626 ya with hamza   "W"  U+0648 waw   "Wh" U+0624 waw + hamza *)
(*   "Tw" U+0640 tatwil          "Sp" U+0020 space                         *)
(*   "Sh" U+0651 shadda          "Dg" U+0670 dagger alif                   *)
(*   "Fa" U+064E fatha           "Tn" U+064B fathatan                      *)
(*   "Tu" U+064C dammatan        "Ti" U+064D kasratan                      *)
(*   "Hz" U+0654 combining hamza above   "Hb" U+0655 combining hamza below *)
(*   "Md" U+0653 combining madda                                           *)
(*   "K" kaf, "F" fa, "B" ba, "L" lam, "S" sin, "E" ayn, "H" ha, "N" nun,  *)
(*   "D" dal, "J" jim, "T" ta, "Q" qaf, "R" ra                             *)
(*   "Du" U+064F damma, "Ks" U+0650 kasra, "Su" U+0652 sukun,              *)
(*   "Tm" U+0629 ta marbuta                                                *)
(* A piece of fixed text inside a message is written as one character.     *)
(***************************************************************************)
EXTENDS Integers, Sequences, FiniteSets, TLC

VARIABLES
    file,         \* the morphology corpus file: the sequence of its token lines
    calls,        \* the calls made so far, each with its arguments and result
    VERSE_CACHE,  \* RootAyahExtraction._VERSE_CACHE (the tokens it was built from)
    FILE_LOADED,  \* RootAyahExtraction._FILE_LOADED
    morph_tokens, \* _all_morph_tokens._cache: [loaded, tokens], unset until the first call
    VERSE_MAP,    \* _ayahs_by_root_exact._VERSE_MAP / ._VERSE_CACHE: [loaded, tokens]
    ROOT_STRS,    \* topic_expansion._ROOT_STRS and its sister attributes: [loaded, tokens]
    SURAH_FILTER, \* ayah_extraction._SURAH_FILTER (NoSurah while unset or None)
    root_analysis,\* the root_analysis.jsonl file: the sequence of its rows
    dictionary,   \* the arabic_dictionary.jsonl file: the sequence of its entries
    disk,         \* condition of the morphology file: [exists, bad_line]
    threads       \* the requests in progress: each one's position and local variables

vars == <<file, calls, VERSE_CACHE, FILE_LOADED, morph_tokens, VERSE_MAP, ROOT_STRS,
          SURAH_FILTER, root_analysis, dictionary, disk, threads>>

NotLoaded == [loaded |-> FALSE, tokens |-> <<>>]

NoSurah == 0     \* surah / surah_filter = None (a surah number is 1..114)

\* the morphology file is there and every line of it parses
Readable == [exists |-> TRUE, bad_line |-> 0]

\* the state of a process that has served no request yet, apart from the
\* morphology file: no cache is built, no request is running
FreshProcess ==
    /\ VERSE_CACHE = <<>>
    /\ FILE_LOADED = FALSE
    /\ morph_tokens = NotLoaded
    /\ VERSE_MAP = NotLoaded
    /\ ROOT_STRS = NotLoaded
    /\ SURAH_FILTER = NoSurah
    /\ threads = <<>>

\* the state kept on classes and function objects between requests
caches == <<VERSE_CACHE, FILE_LOADED, morph_tokens, VERSE_MAP, ROOT_STRS, SURAH_FILTER>>

-----------------------------------------------------------------------------
(* Bounds *)
MaxLen == 3      \* longest raw string handed to normalize in SpecNorm
MaxTokens == 3   \* most lines of the corpus file
MaxRows == 3     \* most lines of the root-analysis file
MaxWordLen == 4  \* longest word handed to _variants in SpecVariants
MaxRequests == 2 \* requests running at the same time on the thread pool
MaxEntries == 2  \* the longest dictionary file
MaxStemLen == 3  \* longest stem of the long words handed to _variants

-----------------------------------------------------------------------------
(* Generic sequence helpers *)

RECURSIVE Concat(_)
Concat(ss) == IF ss = <<>> THEN <<>> ELSE Head(ss) \o Concat(Tail(ss))

Front(s) == SubSeq(s, 1, Len(s) - 1)

Drop(s, n) == SubSeq(s, n + 1, Len(s))

StartsWith(s, p) == Len(s) >= Len(p) /\ SubSeq(s, 1, Len(p)) = p

EndsWith(s, p) == Len(s) >= Len(p) /\ SubSeq(s, Len(s) - Len(p) + 1, Len(s)) = p

Contains(s, c) == \E i \in 1..Len(s) : s[i] = c

RECURSIVE Remove(_, _)
Remove(s, c) ==
    IF s = <<>> THEN <<>>
    ELSE IF Head(s) = c THEN Remove(Tail(s), c)
    ELSE <<Head(s)>> \o Remove(Tail(s), c)

Strings(alphabet, n) == UNION {[1..k -> alphabet] : k \in 0..n}

-----------------------------------------------------------------------------
(* utils/arabic.py *)

\* unicodedata.combining(ch): the canonical combining class
combining(ch) ==
    CASE ch = "Tn" -> 27
      [] ch = "Tu" -> 28
      [] ch = "Ti" -> 29
      [] ch = "Fa" -> 30
      [] ch = "Du" -> 31
      [] ch = "Ks" -> 32
      [] ch = "Sh" -> 33
      [] ch = "Su" -> 34
      [] ch = "Dg" -> 35
      [] ch = "Hb" -> 220
      [] ch = "Hz" -> 230
      [] ch = "Md" -> 230
      [] OTHER -> 0

\* canonical decomposition of one character
Decompose(ch) ==
    CASE ch = "Ah" -> <<"A", "Hz">>
      [] ch = "Ai" -> <<"A", "Hb">>
      [] ch = "Am" -> <<"A", "Md">>
      [] ch = "Wh" -> <<"W", "Hz">>
      [] ch = "Yh" -> <<"Y", "Hz">>
      [] OTHER -> <<ch>>

\* canonical ordering: a combining mark moves left over the marks of a
\* higher class that precede it (stable within a class)
RECURSIVE InsertMark(_, _)
InsertMark(acc, ch) ==
    IF acc # <<>> /\ combining(ch) > 0 /\ combining(acc[Len(acc)]) > combining(ch)
    THEN InsertMark(Front(acc), ch) \o <<acc[Len(acc)]>>
    ELSE acc \o <<ch>>

RECURSIVE Reorder(_, _)
Reorder(acc, s) ==
    IF s = <<>> THEN acc ELSE Reorder(InsertMark(acc, Head(s)), Tail(s))

RECURSIVE DecomposeAll(_)
DecomposeAll(s) ==
    IF s = <<>> THEN <<>> ELSE Decompose(Head(s)) \o DecomposeAll(Tail(s))

\* unicodedata.normalize("NFD", text)
NFD(text) == Reorder(<<>>, DecomposeAll(text))

RECURSIVE StripLoop(_)
StripLoop(s) ==
    IF s = <<>> THEN <<>>
    ELSE LET ch == Head(s) IN
         IF ch = "Dg" THEN <<"A">> \o StripLoop(Tail(s))
         ELSE IF ch = "Sh" THEN <<ch>> \o StripLoop(Tail(s))
         ELSE IF combining(ch) # 0 THEN StripLoop(Tail(s))
         ELSE <<ch>> \o StripLoop(Tail(s))

strip_diacritics(text) == IF text = <<>> THEN <<>> ELSE StripLoop(NFD(text))

\* _AR_REMAP, one character
RemapChar(ch) ==
    CASE ch \in {"Ai", "Am", "Aw"} -> <<"A">>
      [] ch \in {"Ym", "Yh"} -> <<"Y">>
      [] ch = "Wh" -> <<"W">>
      [] ch = "Tw" -> <<>>
      [] OTHER -> <<ch>>

\* str.translate(_AR_REMAP)
RECURSIVE translate(_)
translate(s) == IF s = <<>> THEN <<>> ELSE RemapChar(Head(s)) \o translate(Tail(s))

IsSpace(ch) == ch = "Sp"

RECURSIVE lstrip(_)
lstrip(s) == IF s # <<>> /\ IsSpace(Head(s)) THEN lstrip(Tail(s)) ELSE s

RECURSIVE rstrip(_)
rstrip(s) == IF s # <<>> /\ IsSpace(s[Len(s)]) THEN rstrip(Front(s)) ELSE s

\* str.strip()
strip(s) == rstrip(lstrip(s))

\* the hamza branch of normalize applied to the diacritic-free text
RemapStep(t) ==
    IF t # <<>> /\ t[1] \in {"Ah", "Ai", "Am"}
    THEN <<t[1]>> \o translate(Tail(t))
    ELSE translate(t)

\* a slip that trims before the letter remap instead of after it
normalize_trim_first(text) ==
    IF text = <<>> THEN <<>> ELSE RemapStep(strip(strip_diacritics(text)))

normalize(text) ==
    IF text = <<>> THEN <<>> ELSE strip(RemapStep(strip_diacritics(text)))

-----------------------------------------------------------------------------
(* The morphology corpus: one token per line of the file.  A JSON null is   *)
(* Null; a field is truthy when it is neither null nor the empty string.   *)

Null == <<"null">>

Truthy(x) == x # Null /\ x # <<>>

\* a token list that is None (a returned list of tokens is never empty)
NoTokens == <<>>

Tok(s, a, w, ti, token, lemma, root) ==
    [surah |-> s, ayah |-> a, word_index |-> w, token_index |-> ti,
     token |-> token, lemma |-> lemma, root |-> root]

-----------------------------------------------------------------------------
(* services/retrievers/morphology_retriever.py *)

_group_key(tok) == <<tok.surah, tok.ayah, tok.word_index>>

\* the keys of token_groups, in the order a dict keeps them: first appearance
RECURSIVE GroupKeysFrom(_, _)
GroupKeysFrom(seen, toks) ==
    IF toks = <<>> THEN seen
    ELSE LET k == _group_key(Head(toks)) IN
         IF \E i \in 1..Len(seen) : seen[i] = k
         THEN GroupKeysFrom(seen, Tail(toks))
         ELSE GroupKeysFrom(Append(seen, k), Tail(toks))

GroupKeys(toks) == GroupKeysFrom(<<>>, toks)

\* the set of word keys of a list of tokens
KeySet(toks_all) == {_group_key(toks_all[k]) : k \in 1..Len(toks_all)}

\* token_groups[key]: the tokens of one Quranic word, in file order
RECURSIVE Group(_, _)
Group(toks, key) ==
    IF toks = <<>> THEN <<>>
    ELSE IF _group_key(Head(toks)) = key
         THEN <<Head(toks)>> \o Group(Tail(toks), key)
         ELSE Group(Tail(toks), key)

\* sorted(tokens, key=token_index): stable insertion sort
RECURSIVE InsertByIndex(_, _)
InsertByIndex(sorted, t) ==
    IF sorted # <<>> /\ sorted[Len(sorted)].token_index > t.token_index
    THEN InsertByIndex(Front(sorted), t) \o <<sorted[Len(sorted)]>>
    ELSE sorted \o <<t>>

RECURSIVE SortByIndex(_, _)
SortByIndex(acc, toks) ==
    IF toks = <<>> THEN acc ELSE SortByIndex(InsertByIndex(acc, Head(toks)), Tail(toks))

RECURSIVE JoinTokens(_)
JoinTokens(toks) == IF toks = <<>> THEN <<>> ELSE Head(toks).token \o JoinTokens(Tail(toks))

_concat(tokens) == JoinTokens(SortByIndex(<<>>, tokens))

_PROCLITICS == {"K", "F", "B", "L", "S", "W"}

_IMPF_PREFIXES == {"Ah", "Ai", "Am", "Y", "T", "N"}

TANWEEN == {"Tn", "Ti", "Tu"}

ArticleMinLen == 3     \* a form longer than this may lose its leading article

\* a slip in the proclitic rule's length test (> 5 instead of > 3)
ProcliticForms_long(word, root_initial) ==
    {word} \cup
    (IF Len(word) > 5 /\ word[1] \in _PROCLITICS
     THEN IF Truthy(root_initial) /\ <<word[1]>> = root_initial
          THEN {}
          ELSE IF word[1] = "S"
               THEN (IF word[2] \in _IMPF_PREFIXES THEN {Tail(word)} ELSE {})
               ELSE {Tail(word)}
     ELSE {})

\* a slip in the proclitic rule: a leading seen is removed whatever follows it
ProcliticForms_any_seen(word, root_initial) ==
    {word} \cup
    (IF Len(word) > 3 /\ word[1] \in _PROCLITICS
     THEN IF Truthy(root_initial) /\ <<word[1]>> = root_initial
          THEN {}
          ELSE {Tail(word)}
     ELSE {})

\* rule 1 of _variants: the word and, when allowed, the word without its
\* leading proclitic
ProcliticForms(word, root_initial) ==
    {word} \cup
    (IF Len(word) > 3 /\ word[1] \in _PROCLITICS
     THEN IF Truthy(root_initial) /\ <<word[1]>> = root_initial
          THEN {}
          ELSE IF word[1] = "S"
               THEN (IF word[2] \in _IMPF_PREFIXES THEN {Tail(word)} ELSE {})
               ELSE {Tail(word)}
     ELSE {})

\* rule 2 of _variants: forms of the snapshot that lose the article
ArticleForms(tmp, minlen) ==
    {Drop(w, 2) : w \in {v \in tmp : StartsWith(v, <<"A", "L">>) /\ Len(v) > minlen}}

\* a slip in the trailing-alif rule's length test (> 4 instead of > 3)
TailForms_long_alif(forms) ==
    {Remove(w, c) : c \in TANWEEN, w \in {v \in forms : \E d \in TANWEEN : Contains(v, d)}}
    \cup {Front(w) : w \in {v \in forms : EndsWith(v, <<"A">>) /\ Len(v) > 4}}

\* a slip in the tanween rule: the form without any tanween is added as well
TailForms_strip_all(forms) ==
    {Remove(w, c) : c \in TANWEEN, w \in {v \in forms : \E d \in TANWEEN : Contains(v, d)}}
    \cup {Remove(Remove(Remove(w, "Tn"), "Ti"), "Tu") : w \in forms}
    \cup {Front(w) : w \in {v \in forms : EndsWith(v, <<"A">>) /\ Len(v) > 3}}

\* rules 3 and 4 of _variants, over list(forms)
TailForms(forms) ==
    {Remove(w, c) : c \in TANWEEN, w \in {v \in forms : \E d \in TANWEEN : Contains(v, d)}}
    \cup {Front(w) : w \in {v \in forms : EndsWith(v, <<"A">>) /\ Len(v) > 3}}

\* a slip in the last rule: the shortened forms replace the forms they come from
_variants_replacing(word, root_initial) ==
    LET f1 == ProcliticForms(word, root_initial)
        f2 == f1 \cup ArticleForms(f1, ArticleMinLen)
    IN  IF TailForms(f2) # {} THEN TailForms(f2) ELSE f2

_variants(word, root_initial) ==
    LET f1 == ProcliticForms(word, root_initial)
        f2 == f1 \cup ArticleForms(f1, ArticleMinLen)
    IN  f2 \cup TailForms(f2)

NoKey == <<0, 0, 0>>

Found(toks, kind, key, q) ==
    [tokens |-> toks, note |-> [kind |-> kind, key |-> key, word |-> q]]

NotLocated(q) ==
    [tokens |-> NoTokens, note |-> [kind |-> "not located", key |-> NoKey, word |-> q]]

\* first character of the first token's root, else None
RootInitialOfFirst(toks) ==
    IF Truthy(toks[1].root) THEN SubSeq(toks[1].root, 1, 1) ELSE Null

\* the three tests made on one Quranic word, in the order of the loop body
LemmaHit(q_norm, toks) == Truthy(toks[1].lemma) /\ normalize(toks[1].lemma) = q_norm

SurfaceHit(q_norm, toks) ==
    _variants(q_norm, Null)
        \cap _variants(normalize(_concat(toks)), RootInitialOfFirst(toks)) # {}

RootHit(q_norm, toks) == Truthy(toks[1].root) /\ normalize(toks[1].root) = q_norm

\* the loop over token_groups.items(), from position i on
RECURSIVE MatchLoop(_, _, _, _, _)
MatchLoop(query_word, q_norm, toks_all, keys, i) ==
    IF i > Len(keys) THEN NotLocated(query_word)
    ELSE LET key == keys[i]
             toks == Group(toks_all, key)
         IN  IF LemmaHit(q_norm, toks)
             THEN Found(toks, "Exact lemma match", key, query_word)
             ELSE IF SurfaceHit(q_norm, toks)
             THEN Found(toks, "Surface match", key, query_word)
             ELSE IF RootHit(q_norm, toks)
             THEN Found(toks, "Exact root match", key, query_word)
             ELSE MatchLoop(query_word, q_norm, toks_all, keys, i + 1)

\* a matcher whose precedence lemma > surface > root is global: one pass per
\* rule over the whole corpus
RECURSIVE RuleLoop(_, _, _, _, _, _)
RuleLoop(rule, query_word, q_norm, toks_all, keys, i) ==
    IF i > Len(keys) THEN NotLocated(query_word)
    ELSE LET key == keys[i]
             toks == Group(toks_all, key)
         IN  IF rule = "Exact lemma match" /\ LemmaHit(q_norm, toks)
             THEN Found(toks, rule, key, query_word)
             ELSE IF rule = "Surface match" /\ SurfaceHit(q_norm, toks)
             THEN Found(toks, rule, key, query_word)
             ELSE IF rule = "Exact root match" /\ RootHit(q_norm, toks)
             THEN Found(toks, rule, key, query_word)
             ELSE RuleLoop(rule, query_word, q_norm, toks_all, keys, i + 1)

smart_exact_match_global(query_word, toks_all) ==
    LET q_norm == normalize(query_word)
        keys == GroupKeys(toks_all)
        l == RuleLoop("Exact lemma match", query_word, q_norm, toks_all, keys, 1)
        s == RuleLoop("Surface match", query_word, q_norm, toks_all, keys, 1)
        r == RuleLoop("Exact root match", query_word, q_norm, toks_all, keys, 1)
    IN  IF l.tokens # NoTokens THEN l ELSE IF s.tokens # NoTokens THEN s ELSE r

\* smart_exact_match(query_word) over the lines of an existing corpus file
smart_exact_match(query_word, toks_all) ==
    MatchLoop(query_word, normalize(query_word), toks_all, GroupKeys(toks_all), 1)

-----------------------------------------------------------------------------
(* Specification SpecNorm: normalize applied to raw strings and to its own  *)
(* results.                                                                *)

NormChars == {"A", "Ah", "Ai", "Am", "Aw", "Y", "Ym", "Yh", "W", "Wh", "Tw",
              "Sp", "Sh", "Dg", "Fa", "Tn", "Hz", "B"}

NormCall(s) == [op |-> "normalize", arg |-> s, ret |-> normalize(s)]

InitNorm ==
    /\ file = <<>>
    /\ calls = <<>>
    /\ root_analysis = <<>>
    /\ disk = Readable
    /\ dictionary = <<>>
    /\ FreshProcess

\* normalize(s) on a raw input string
CallNormalize ==
    /\ calls = <<>>
    /\ \E s \in Strings(NormChars, MaxLen) : calls' = <<NormCall(s)>>
    /\ UNCHANGED <<file, caches, root_analysis, dictionary, disk, threads>>

\* normalize applied to the result of the previous call
CallNormalizeAgain ==
    /\ Len(calls) = 1
    /\ calls' = Append(calls, NormCall(calls[1].ret))
    /\ UNCHANGED <<file, caches, root_analysis, dictionary, disk, threads>>

NextNorm == CallNormalize \/ CallNormalizeAgain

SpecNorm == InitNorm /\ [][NextNorm]_vars

\* C1: normalize is idempotent: normalizing the result of normalize(s) gives
\* that same result, for every input string s.
C1_Idempotent ==
    Len(calls) = 2 => calls[2].ret = calls[1].ret

\* a raw string whose normalization changed it has been normalized twice
C1_Witness ==
    /\ Len(calls) = 2
    /\ calls[1].arg # calls[1].ret
    /\ calls[1].ret # <<>>
    /\ Contains(calls[1].arg, "Tw")

\* C2: a leading hamzat-al-qat' is preserved: whenever the input begins with
\* U+0623 the result of normalize begins with U+0623 too.
C2_LeadingHamzaKept ==
    \A i \in 1..Len(calls) :
        (calls[i].arg # <<>> /\ calls[i].arg[1] = "Ah")
            => (calls[i].ret # <<>> /\ calls[i].ret[1] = "Ah")

-----------------------------------------------------------------------------
(* Ordering of integer tuples, as Python orders tuples *)

RECURSIVE LexLess(_, _)
LexLess(a, b) ==
    IF a = <<>> THEN b # <<>>
    ELSE IF b = <<>> THEN FALSE
    ELSE IF Head(a) < Head(b) THEN TRUE
    ELSE IF Head(a) > Head(b) THEN FALSE
    ELSE LexLess(Tail(a), Tail(b))

\* sorted(set of tuples)
RECURSIVE Sorted(_)
Sorted(S) ==
    IF S = {} THEN <<>>
    ELSE LET m == CHOOSE x \in S : \A y \in S \ {x} : LexLess(x, y)
         IN  <<m>> \o Sorted(S \ {m})

-----------------------------------------------------------------------------
(* services/extractors/quranic_word_extractor.py *)

_CONF_THRESHOLD == 45    \* 0.45, confidences counted in hundredths

\* _regex_layer on a question that is one bare word: every pattern asks for a
\* keyword followed by white space before the captured word, so none matches
_regex_layer(text) == Null

\* extract_word(question), rsp being what _llm_layer returned: (word,
\* confidence), or (None, 0) after any failure of the request
extract_word(question, rsp) ==
    LET w == _regex_layer(question) IN
    IF Truthy(w) THEN w
    ELSE IF Truthy(rsp.word) /\ rsp.confidence >= _CONF_THRESHOLD THEN rsp.word
    ELSE Null

-----------------------------------------------------------------------------
(* services/extractors/root_ayah_extraction.py *)

\* len(text.split())
RECURSIVE WordCount(_, _)
WordCount(s, inword) ==
    IF s = <<>> THEN 0
    ELSE IF IsSpace(Head(s)) THEN WordCount(Tail(s), FALSE)
    ELSE (IF inword THEN 0 ELSE 1) + WordCount(Tail(s), TRUE)

verse_key(tok) == <<tok.surah, tok.ayah>>

\* keys of _VERSE_CACHE in dict order: first appearance in the file
RECURSIVE VerseKeysFrom(_, _)
VerseKeysFrom(seen, toks) ==
    IF toks = <<>> THEN seen
    ELSE LET k == verse_key(Head(toks)) IN
         IF \E i \in 1..Len(seen) : seen[i] = k
         THEN VerseKeysFrom(seen, Tail(toks))
         ELSE VerseKeysFrom(Append(seen, k), Tail(toks))

VerseKeys(cache) == VerseKeysFrom(<<>>, cache)

\* _VERSE_CACHE[(s, a)][word_index]: tokens in file order
VerseWordTokens(cache, verse, idx) == Group(cache, <<verse[1], verse[2], idx>>)

\* the word indexes of a verse
WordIndexes(cache, verse) ==
    {cache[i].word_index : i \in {j \in 1..Len(cache) : verse_key(cache[j]) = verse}}

_with_shadda_free(variants) == variants \cup {Remove(v, "Sh") : v \in variants}

\* first character of the first root carried by a token, else ""
RootInitialOfAny(tokens) ==
    LET at == {i \in 1..Len(tokens) : Truthy(tokens[i].root)} IN
    IF at = {} THEN <<>>
    ELSE SubSeq(tokens[CHOOSE i \in at : \A j \in at : i <= j].root, 1, 1)

_word_matches(q_norm, tokens) ==
    \/ \E i \in 1..Len(tokens) :
          /\ Truthy(tokens[i].lemma)
          /\ LET lem_norm == normalize(tokens[i].lemma) IN
             lem_norm = q_norm \/ Remove(lem_norm, "Sh") = Remove(q_norm, "Sh")
    \/ _with_shadda_free(_variants(q_norm, Null))
          \cap _with_shadda_free(_variants(normalize(_concat(tokens)), RootInitialOfAny(tokens)))
          # {}
    \/ \E i \in 1..Len(tokens) :
          /\ Truthy(tokens[i].root)
          /\ LET r_norm == normalize(tokens[i].root) IN
             r_norm = q_norm \/ Remove(r_norm, "Sh") = Remove(q_norm, "Sh")

RECURSIVE JoinWords(_)
JoinWords(ws) ==
    IF ws = <<>> THEN <<>>
    ELSE IF Len(ws) = 1 THEN ws[1]
    ELSE ws[1] \o <<"Sp">> \o JoinWords(Tail(ws))

\* _build_verse_text(_VERSE_CACHE[verse])
_build_verse_text(cache, verse) ==
    LET idxs == Sorted({<<i>> : i \in WordIndexes(cache, verse)})
    IN  JoinWords([n \in 1..Len(idxs) |-> _concat(VerseWordTokens(cache, verse, idxs[n][1]))])

\* the verses kept by the scan loop of extract
VerseMatches(q_norm, cache, surah_filter, verse) ==
    /\ surah_filter = NoSurah \/ verse[1] = surah_filter
    /\ \E idx \in WordIndexes(cache, verse) :
          _word_matches(q_norm, VerseWordTokens(cache, verse, idx))

\* a scan that appends (s, a) once per matching word, in dict order, to a
\* list that is never sorted
RECURSIVE ScanList(_, _, _, _)
ScanList(q_norm, cache, surah_filter, toks) ==
    IF toks = <<>> THEN <<>>
    ELSE LET t == Head(toks)
             v == verse_key(t)
             first == \A i \in 1..(Len(cache) - Len(toks)) : _group_key(cache[i]) # _group_key(t)
         IN  (IF /\ first
                 /\ surah_filter = NoSurah \/ v[1] = surah_filter
                 /\ _word_matches(q_norm, VerseWordTokens(cache, v, t.word_index))
              THEN <<v>> ELSE <<>>)
             \o ScanList(q_norm, cache, surah_filter, Tail(toks))

matched_list(q_norm, cache, surah_filter) == ScanList(q_norm, cache, surah_filter, cache)

\* sorted(matched), matched being the set filled by the scan loop
matched_sorted(q_norm, cache, surah_filter) ==
    Sorted({v \in {verse_key(cache[i]) : i \in 1..Len(cache)} :
                VerseMatches(q_norm, cache, surah_filter, v)})

Raised(what) == [raised |-> what, triples |-> <<>>]

\* number of requests extract_word(question) sends to the language model:
\* one, unless the regex layer found a word
llm_requests(question) == IF Truthy(_regex_layer(question)) THEN 0 ELSE 1

\* query_word of extract: what extract_word returned, else the question
\* itself when it is one or two words long (Null when extract raises)
QueryWordOf(question, rsp) ==
    IF Truthy(extract_word(question, rsp)) THEN extract_word(question, rsp)
    ELSE IF 1 <= WordCount(strip(question), FALSE) /\ WordCount(strip(question), FALSE) <= 2
    THEN strip(question)
    ELSE Null

\* RootAyahExtraction.extract(question, surah_filter) over the loaded cache;
\* rsp is the answer of the language model, used when extract_word asks it
extract(question, surah_filter, rsp, cache) ==
    LET w == extract_word(question, rsp)
        n == WordCount(strip(question), FALSE)
    IN  IF ~Truthy(w) /\ ~(1 <= n /\ n <= 2) THEN Raised("ValueError")
        ELSE LET query_word == IF Truthy(w) THEN w ELSE strip(question)
                 q_norm == normalize(query_word)
                 vs == matched_sorted(q_norm, cache, surah_filter)
             IN  [raised |-> "no",
                  triples |-> [i \in 1..Len(vs) |->
                                 <<vs[i][1], vs[i][2], _build_verse_text(cache, vs[i])>>]]

-----------------------------------------------------------------------------
(* services/retrievers/root_retriever.py *)

\* one line of root_analysis.jsonl; root_stripped is Null when the key is absent
Row(num, root_stripped, root) == [num |-> num, root_stripped |-> root_stripped, root |-> root]

\* str.replace(old, new) for single characters
Replace(s, old, new) == [i \in 1..Len(s) |-> IF s[i] = old THEN new ELSE s[i]]

\* s holds sub as a contiguous part
IsSubstring(sub, s) ==
    \E i \in 0..(Len(s) - Len(sub)) : SubSeq(s, i + 1, i + Len(sub)) = sub

\* _normalize_root(root)
_normalize_root(root) ==
    Replace(Replace(Remove(Remove(Remove(Remove(
        Replace(Replace(Replace(root, "Ah", "A"), "Ai", "A"), "Am", "A"),
        "Fa"), "Du"), "Ks"), "Su"), "Ym", "Y"), "Tm", "H")

\* entry.get("root_stripped") or entry.get("root")
EntryRoot(entry) == IF Truthy(entry.root_stripped) THEN entry.root_stripped ELSE entry.root

debug_note(root) == <<"Searching for root '">> \o root \o <<"' in root_analysis.jsonl">>

RootFound(entry, root) ==
    [raised |-> "no", data |-> <<entry>>,
     note |-> debug_note(root) \o <<"Found matching root '">> \o root
                \o <<"' in entry #", entry.num>>]

RootNotFound(root) ==
    [raised |-> "no", data |-> <<>>,
     note |-> debug_note(root) \o <<"No matching root found for '">> \o root
                \o <<"' in root_analysis.jsonl">>]

\* a lookup that returns the last matching row of the file
RECURSIVE LookupLoop_last(_, _, _, _)
LookupLoop_last(root, normalized_root, rows, i) ==
    IF i > Len(rows) THEN RootNotFound(root)
    ELSE IF EntryRoot(rows[Len(rows) + 1 - i]) = Null
    THEN [raised |-> "AttributeError", data |-> <<>>, note |-> <<>>]
    ELSE IF _normalize_root(EntryRoot(rows[Len(rows) + 1 - i])) = normalized_root
    THEN RootFound(rows[Len(rows) + 1 - i], root)
    ELSE LookupLoop_last(root, normalized_root, rows, i + 1)

\* the loop over the lines of the file, from line i on; a row without any
\* root makes _normalize_root raise
RECURSIVE LookupLoop(_, _, _, _)
LookupLoop(root, normalized_root, rows, i) ==
    IF i > Len(rows) THEN RootNotFound(root)
    ELSE IF EntryRoot(rows[i]) = Null
    THEN [raised |-> "AttributeError", data |-> <<>>, note |-> <<>>]
    ELSE IF _normalize_root(EntryRoot(rows[i])) = normalized_root
    THEN RootFound(rows[i], root)
    ELSE LookupLoop(root, normalized_root, rows, i + 1)

\* root_lookup_combined(root) over the rows of an existing file; data is
\* <<>> for None and <<entry>> for an entry
root_lookup_combined(root, rows) == LookupLoop(root, _normalize_root(root), rows, 1)

-----------------------------------------------------------------------------
(* services/classification.py.  A reply of the language model is the      *)
(* sequence of its pieces: a slug is one piece, any other character one.   *)

LABELS_SLUGS ==
    << "meaning_word", "semantic_context_word", "multiple_contexts_word",
       "difference_two_words", "root_conjugations_usage", "frequency_word_root",
       "thematic_classification_roots", "semantic_domain_root", "root_extraction",
       "root_ayah_extraction", "roots_by_topic", "forms_of_root" >>

Slugs == {LABELS_SLUGS[i] : i \in 1..Len(LABELS_SLUGS)}

Digits == {"0", "1", "2", "3", "4", "5", "6", "7", "8", "9"}

\* int(ch) for a digit
DigitValue(ch) ==
    CASE ch = "0" -> 0 [] ch = "1" -> 1 [] ch = "2" -> 2 [] ch = "3" -> 3
      [] ch = "4" -> 4 [] ch = "5" -> 5 [] ch = "6" -> 6 [] ch = "7" -> 7
      [] ch = "8" -> 8 [] ch = "9" -> 9

\* re.match(r"\D*?(\d{1,2})", raw): the first digit of raw, with the digit
\* that follows it when there is one; -1 when raw holds no digit
IndexIn(raw) ==
    LET at == {i \in 1..Len(raw) : raw[i] \in Digits} IN
    IF at = {} THEN -1
    ELSE LET p == CHOOSE i \in at : \A j \in at : i <= j IN
         IF p < Len(raw) /\ raw[p + 1] \in Digits
         THEN 10 * DigitValue(raw[p]) + DigitValue(raw[p + 1])
         ELSE DigitValue(raw[p])

\* _llm_label(question), raw being the stripped reply of the language model
_llm_label(raw) ==
    IF Len(raw) = 1 /\ raw[1] \in Slugs THEN raw[1]
    ELSE IF 0 <= IndexIn(raw) /\ IndexIn(raw) < Len(LABELS_SLUGS)
    THEN LABELS_SLUGS[IndexIn(raw) + 1]
    ELSE "meaning_word"

-----------------------------------------------------------------------------
(* services/retrievers/dictionary_retriever.py *)

Entry(word, definition) == [word |-> word, definition |-> definition]

\* normalize(entry.get("word", "")); normalize gives "" for None
EntryWord(entry) == IF entry.word = Null THEN <<>> ELSE normalize(entry.word)

DefinitionFound(entry, word) ==
    [raised |-> "no", data |-> <<entry>>,
     note |-> <<"Definition for '">> \o word \o <<"' found.">>]

DefinitionNotFound(word) ==
    [raised |-> "no", data |-> <<>>,
     note |-> <<"Definition for '">> \o word \o <<"' not found.">>]

\* the loop over the lines of the dictionary file, from line i on
RECURSIVE DefinitionLoop(_, _, _, _)
DefinitionLoop(word, w_norm, entries, i) ==
    IF i > Len(entries) THEN DefinitionNotFound(word)
    ELSE IF EntryWord(entries[i]) = w_norm THEN DefinitionFound(entries[i], word)
    ELSE DefinitionLoop(word, w_norm, entries, i + 1)

\* lookup_definition(word) over the entries of an existing file
lookup_definition(word, entries) == DefinitionLoop(word, normalize(word), entries, 1)

-----------------------------------------------------------------------------
(* services/retrievers/dispatcher.py *)

\* the root looked for by root_match: that of the first token of the word
\* smart_exact_match found, else the argument itself
RootOfMatch(m, root_or_word) ==
    IF m.tokens # NoTokens THEN m.tokens[1].root ELSE root_or_word

\* the list comprehension of root_match: the tokens whose root field equals
\* root (or normalize(root), for a root that starts with a hamza form);
\* root.startswith raises on a root that is None
TokensWithRoot(root, tokens_all) ==
    IF root = Null
    THEN [raised |-> "AttributeError", tokens |-> NoTokens, loads |-> {}]
    ELSE [raised |-> "no", loads |-> {"_all_morph_tokens"},
          tokens |-> SelectSeq(tokens_all,
                        LAMBDA t : \/ t.root = root
                                   \/ /\ root # <<>>
                                      /\ root[1] \in {"Ah", "Ai", "Am"}
                                      /\ t.root = normalize(root))]

\* root_match(root_or_word): tokens is NoTokens when none has the root
root_match(root_or_word, toks_file, tokens_all) ==
    TokensWithRoot(RootOfMatch(smart_exact_match(root_or_word, toks_file), root_or_word),
                   tokens_all)

InSurah(toks, surah_num) ==
    IF surah_num = NoSurah THEN toks ELSE SelectSeq(toks, LAMBDA t : t.surah = surah_num)

\* the test made on one word by the loop of lemma_match_surah_filter
WordLevelHit(q_norm, toks) ==
    \/ Truthy(toks[1].lemma) /\ normalize(toks[1].lemma) = q_norm
    \/ _with_shadda_free(_variants(q_norm, Null))
          \cap _with_shadda_free(_variants(normalize(_concat(toks)), RootInitialOfFirst(toks)))
          # {}

RECURSIVE WordLevelLoop(_, _, _, _)
WordLevelLoop(q_norm, toks_in, keys, i) ==
    IF i > Len(keys) THEN <<>>
    ELSE (IF WordLevelHit(q_norm, Group(toks_in, keys[i])) THEN Group(toks_in, keys[i]) ELSE <<>>)
         \o WordLevelLoop(q_norm, toks_in, keys, i + 1)

\* steps 1 and 2 of lemma_match_surah_filter: the tokens of the words, of
\* the requested surah when given, that match by lemma or surface variant
WordLevelMatches(q_norm, toks_in) == WordLevelLoop(q_norm, toks_in, GroupKeys(toks_in), 1)

\* step 4 of lemma_match_surah_filter, rm being what root_match returned
RootFallback(rm, surah) ==
    IF rm.raised # "no"
    THEN [raised |-> rm.raised, tokens |-> NoTokens, loads |-> {"_all_morph_tokens"}]
    ELSE [raised |-> "no", tokens |-> InSurah(rm.tokens, surah),
          loads |-> {"_all_morph_tokens"}]

\* steps 3 to 5 of lemma_match_surah_filter
WordLevelOrRoot(matches, word, surah, toks_file, tokens_all) ==
    IF matches # <<>>
    THEN [raised |-> "no", tokens |-> matches, loads |-> {"_all_morph_tokens"}]
    ELSE RootFallback(root_match(word, toks_file, tokens_all), surah)

\* lemma_match_surah_filter(word, surah)
lemma_match_surah_filter(word, surah, toks_file, tokens_all) ==
    WordLevelOrRoot(WordLevelMatches(normalize(word), InSurah(tokens_all, surah)),
                    word, surah, toks_file, tokens_all)

\* lemma_match(word), m being what smart_exact_match(word) returned: the
\* tokens of the word found, else those root_match(word) returns
LemmaOrRoot(m, word, toks_file, tokens_all) ==
    IF m.tokens # NoTokens
    THEN [raised |-> "no", tokens |-> m.tokens, loads |-> {}]
    ELSE root_match(word, toks_file, tokens_all)

lemma_match(word, toks_file, tokens_all) ==
    LemmaOrRoot(smart_exact_match(word, toks_file), word, toks_file, tokens_all)

\* "surah s ayah a - text", the form of a verse in a context bundle
FormatVerse(s, a, text) == <<"surah ", s, " ayah ", a, " - ", text>>

\* what ayah_extraction returns for the result e of extract: every
\* exception is caught and reported in the note; data is <<>> for None
AyahsOf(e, word) ==
    IF e.raised # "no"
    THEN [data |-> <<>>, note |-> <<"root_ayah_extraction error: ", e.raised>>, loads |-> {}]
    ELSE IF e.triples = <<>>
    THEN [data |-> <<>>, note |-> <<"no ayah holds '">> \o word \o <<"'">>,
          loads |-> {"RootAyahExtraction"}]
    ELSE [data |-> [i \in 1..Len(e.triples) |->
                      FormatVerse(e.triples[i][1], e.triples[i][2], e.triples[i][3])],
          note |-> <<"extracted the ayat that hold '">> \o word \o <<"'">>,
          loads |-> {"RootAyahExtraction"}]

\* ayah_extraction(word), with the value of ayah_extraction._SURAH_FILTER it
\* reads and the answer rsp of the language model extract may ask
ayah_extraction(word, surah_filter, rsp, cache) ==
    AyahsOf(extract(word, surah_filter, rsp, cache), word)

\* r of topic_expansion: j.get("root_stripped") or j.get("root") or ""
RootOrEmpty(entry) == IF Truthy(EntryRoot(entry)) THEN EntryRoot(entry) ELSE <<>>

Reverse(s) == [i \in 1..Len(s) |-> s[Len(s) + 1 - i]]

\* unique_roots: the first occurrence of each root, in order
RECURSIVE Unique(_, _)
Unique(seen, s) ==
    IF s = <<>> THEN <<>>
    ELSE IF Head(s) \in seen THEN Unique(seen, Tail(s))
    ELSE <<Head(s)>> \o Unique(seen \cup {Head(s)}, Tail(s))

\* the roots of the rows in descending similarity, as the embedding ranks
\* them: emb is the order it gives, or "fail" when embedding raises
roots_ranked(emb, rows) ==
    IF emb = "reverse" THEN Reverse([i \in 1..Len(rows) |-> RootOrEmpty(rows[i])])
    ELSE [i \in 1..Len(rows) |-> RootOrEmpty(rows[i])]

\* topic_expansion(topic): the (at most 9) ranked roots of the root-analysis
\* rows, or "" with a diagnostic note when anything raises (an empty file
\* makes the embedding raise)
topic_expansion(topic, emb, rows) ==
    IF emb = "fail" \/ rows = <<>>
    THEN [ok |-> FALSE, root_list |-> <<>>, note |-> <<"topic_expansion failed">>,
          loads |-> {}]
    ELSE [ok |-> TRUE, root_list |-> Unique({}, roots_ranked(emb, rows)),
          note |-> <<"Retrieved candidate roots for topic '">> \o topic \o <<"'">>,
          loads |-> {"topic_expansion"}]

\* the stub domain_classification(root)
domain_classification(root) ==
    [data |-> <<"(stub) semantic domain explanation">>,
     note |-> <<"domain_classification placeholder">>]

\* the verses of _ayahs_by_root_exact._VERSE_MAP, in insertion order, that
\* hold a token whose root equals root after normalization
VersesWithRoot(root_norm, tokens, keys) ==
    SelectSeq(keys, LAMBDA v :
        \E i \in 1..Len(tokens) :
            /\ verse_key(tokens[i]) = v
            /\ Truthy(tokens[i].root)
            /\ normalize(tokens[i].root) = root_norm)

FirstN(s, n) == SubSeq(s, 1, IF Len(s) < n THEN Len(s) ELSE n)

FormatVerses(vs, tokens) ==
    [i \in 1..Len(vs) |-> FormatVerse(vs[i][1], vs[i][2], _build_verse_text(tokens, vs[i]))]

\* _ayahs_by_root_exact(root, max_n)
_ayahs_by_root_exact(root, max_n, tokens) ==
    FormatVerses(FirstN(VersesWithRoot(normalize(root), tokens, VerseKeys(tokens)), max_n),
                 tokens)

Method(name, on_fail) == [kind |-> "method", name |-> name, on_fail |-> on_fail]

Postprocess(name) == [kind |-> "postprocess", name |-> name, on_fail |-> ""]

\* DISPATCH_TABLE: on_fail is "" for a step that has none; the Arabic
\* messages of the last rows are given in English
DISPATCH_TABLE ==
    [meaning_word |->
        << Method("lemma_match",
                  "The word you provided does not exist in the Qur'anic database."),
           Method("root_lookup_combined", "") >>,
     semantic_context_word |->
        << Method("lemma_match",
                  "The word or lemma could not be found in the Qur'anic corpus."),
           Method("root_lookup_combined", "") >>,
     multiple_contexts_word |->
        << Method("root_match", "The root could not be located in the Qur'anic corpus."),
           Method("root_lookup_combined", "") >>,
     difference_two_words |->
        << Method("lemma_match", "One or both of the words are not found in the Qur'an."),
           Method("root_lookup_combined", "") >>,
     frequency_word_root |->
        << Method("lemma_match_surah_filter",
                  "The word was not found in the specified surah."),
           Postprocess("count") >>,
     thematic_classification_roots |->
        << Method("lemma_match", "The word is not present in the Qur'anic corpus."),
           Method("root_lookup_combined", "") >>,
     semantic_domain_root |->
        << Method("root_match", "The root could not be found in the Qur'anic text."),
           Method("root_lookup_combined", ""),
           Method("domain_classification", "") >>,
     root_extraction |->
        << Method("lemma_match",
                  "The word you provided does not exist in the Qur'anic database."),
           Postprocess("extract_root") >>,
     root_ayah_extraction |->
        << Method("ayah_extraction", "no ayah holds the word or root asked for") >>,
     roots_by_topic |->
        << Method("topic_expansion", "no root is related to this topic"),
           Postprocess("attach_sample_ayahs") >>,
     forms_of_root |->
        << Method("lemma_match", "could not find the root or word in the database"),
           Method("root_lookup_combined", "") >>]

EmptyCtx == [k \in {} |-> <<>>]

Put(ctx, k, v) == (k :> v) @@ ctx

\* number of occurrences reported by the count step that counts raw tokens
count_words_raw(morph_cache) == Len(morph_cache)

\* the count step: number of distinct (surah, ayah, word_index) triples
count_words(morph_cache) == Cardinality(KeySet(morph_cache))

\* occ_refs and pretty_refs, one entry per key of sorted(word_keys)
occ_refs(refs) ==
    [i \in 1..Len(refs) |-> <<"S", refs[i][1], ":A", refs[i][2], ":W", refs[i][3]>>]

pretty_refs(refs) == [i \in 1..Len(refs) |-> <<"surah ", refs[i][1], " ayah ", refs[i][2]>>]

\* the "count" post-processing step
postprocess_count(ctx, morph_cache) ==
    Put(Put(Put(ctx, "occurrence_count", count_words(morph_cache)),
            "occurrence_refs", occ_refs(Sorted(KeySet(morph_cache)))),
        "occurrence_refs_pretty", pretty_refs(Sorted(KeySet(morph_cache))))

\* position of the first element of s that passes Test, 0 when none does
FirstIndex(s, Test(_)) ==
    IF \A i \in 1..Len(s) : ~Test(s[i]) THEN 0
    ELSE CHOOSE i \in 1..Len(s) : Test(s[i]) /\ \A j \in 1..(i - 1) : ~Test(s[j])

\* the first truthy root among the tokens, Null when there is none
FirstRoot(toks) ==
    IF FirstIndex(toks, LAMBDA t : Truthy(t.root)) = 0 THEN Null
    ELSE toks[FirstIndex(toks, LAMBDA t : Truthy(t.root))].root

\* s.replace of fatha, damma, kasra and sukun by ""; s or "" first
Unvowelled(s) ==
    IF s = Null THEN <<>> ELSE Remove(Remove(Remove(Remove(s, "Fa"), "Du"), "Ks"), "Su")

\* target_token of the root_lookup_combined step: position in morph_cache
\* of the token at S37:A140:W2, else of the first one whose token or lemma
\* is the target up to short vowels, else 0
TargetToken(morph_cache, target) ==
    IF FirstIndex(morph_cache,
                  LAMBDA t : t.surah = 37 /\ t.ayah = 140 /\ t.word_index = 2) # 0
    THEN FirstIndex(morph_cache,
                    LAMBDA t : t.surah = 37 /\ t.ayah = 140 /\ t.word_index = 2)
    ELSE FirstIndex(morph_cache,
                    LAMBDA t : \/ Unvowelled(t.token) = Unvowelled(target)
                               \/ Unvowelled(t.lemma) = Unvowelled(target))

\* root_arg of the root_lookup_combined step
RootArg(morph_cache, target) ==
    IF morph_cache = <<>> THEN target
    ELSE IF TargetToken(morph_cache, target) # 0
            /\ Truthy(morph_cache[TargetToken(morph_cache, target)].root)
    THEN morph_cache[TargetToken(morph_cache, target)].root
    ELSE IF FirstRoot(morph_cache) # Null THEN FirstRoot(morph_cache)
    ELSE target

\* the second lookup, with the target, made when the first one (first,
\* with root_arg) found nothing
RetryWithTarget(first, alt) ==
    IF alt.raised # "no" THEN alt
    ELSE [raised |-> "no", data |-> alt.data,
          note |-> first.note \o <<"Retrying with user-supplied root">> \o alt.note]

\* data and note of the root_lookup_combined step
LookupWithRetry(first, root_arg, target, rows) ==
    IF first.raised = "no" /\ first.data = <<>> /\ target # root_arg
    THEN RetryWithTarget(first, root_lookup_combined(target, rows))
    ELSE first

\* root_str and root_note of the extract_root step; m is the result of the
\* secondary smart_exact_match(target)
ExtractedRoot(morph_cache, target, m) ==
    IF FirstRoot(morph_cache) # Null
    THEN [root |-> FirstRoot(morph_cache), note |-> <<"from morphology tokens">>]
    ELSE IF m.tokens # NoTokens /\ Truthy(m.tokens[1].root)
    THEN [root |-> m.tokens[1].root, note |-> <<"via secondary lookup">>]
    ELSE [root |-> target, note |-> <<"Root not found; using target word as-is.">>]

\* samples of the attach_sample_ayahs step: the roots of the list that
\* have verses, each with its (at most 3) verses
Samples(roots, tokens) ==
    [r \in {roots[i] : i \in {j \in 1..Len(roots) :
                                 _ayahs_by_root_exact(roots[j], 3, tokens) # <<>>}}
        |-> _ayahs_by_root_exact(r, 3, tokens)]

\* f"{method_name}_note"
NoteKey(method_name) ==
    CASE method_name = "root_lookup_combined" -> "root_lookup_combined_note"
      [] method_name = "root_match" -> "root_match_note"
      [] method_name = "domain_classification" -> "domain_classification_note"
      [] method_name = "ayah_extraction" -> "ayah_extraction_note"
      [] method_name = "topic_expansion" -> "topic_expansion_note"
      [] method_name = "lemma_match" -> "lemma_match_note"
      [] method_name = "lemma_match_surah_filter" -> "lemma_match_surah_filter_note"

\* The local state of a running dispatch_retrieval call: ctx, the private
\* morph_cache (<<>> while None), the steps entered so far (trace), the
\* caches the call has populated (loads) and the value it left in
\* ayah_extraction._SURAH_FILTER (filter).
StartState(filter) ==
    [ctx |-> EmptyCtx, morph_cache |-> <<>>, trace |-> <<>>, invoked |-> <<>>,
     loads |-> {}, filter |-> filter]

\* a call of a retrieval function with arg, made by the step being run
Invoke(st, method, arg) ==
    [st EXCEPT !.invoked = Append(@, [step |-> st.trace[Len(st.trace)],
                                      method |-> method, arg |-> arg])]

\* the calls of root_lookup_combined made by its step: with root_arg, and
\* with the target when the first call found nothing
InvokeLookup(st, first, root_arg, target) ==
    IF first.raised = "no" /\ first.data = <<>> /\ target # root_arg
    THEN Invoke(Invoke(st, "root_lookup_combined", root_arg), "root_lookup_combined", target)
    ELSE Invoke(st, "root_lookup_combined", root_arg)

\* a retrieval function called twice by one step
InvokeTwice(st, method, arg) == Invoke(Invoke(st, method, arg), method, arg)

\* the three ways an iteration of the loop ends: next step, return ctx, or
\* an exception that leaves dispatch_retrieval
Going(st) == [raised |-> "no", stop |-> FALSE, st |-> st]

Returning(st) == [raised |-> "no", stop |-> TRUE, st |-> st]

Raising(what, st) == [raised |-> what, stop |-> TRUE, st |-> st]

Loaded(st, loads) == [st EXCEPT !.loads = @ \cup loads]

\* a failure that stores the message and lets the loop go on
Fail_no_return(step, st) ==
    IF step.on_fail # ""
    THEN Going([st EXCEPT !.ctx = Put(@, "error_message", step.on_fail)])
    ELSE Going(st)

\* a failure that ends the call whether or not the step has an on_fail message
Fail_always_return(step, st) ==
    IF step.on_fail # ""
    THEN Returning([st EXCEPT !.ctx = Put(@, "error_message", step.on_fail)])
    ELSE Returning(st)

\* fail_msg = step.get("on_fail"); if fail_msg: error_message, return ctx
Fail(step, st) ==
    IF step.on_fail # ""
    THEN Returning([st EXCEPT !.ctx = Put(@, "error_message", step.on_fail)])
    ELSE Going(st)

\* ctx[f"{method_name}_note"] = note, then ctx[method_name] = data when
\* there is data, else the step fails
Store(step, st, has_data, data, note) ==
    IF has_data
    THEN Going([st EXCEPT !.ctx = Put(Put(@, NoteKey(step.name), note), step.name, data)])
    ELSE Fail(step, [st EXCEPT !.ctx = Put(@, NoteKey(step.name), note)])

\* a lemma step that also stores its tokens in the bundle
AfterLemmaStep_stored(r, step, st) ==
    IF r.raised # "no" THEN Raising(r.raised, Loaded(st, r.loads))
    ELSE IF r.tokens = NoTokens /\ st.morph_cache = <<>>
    THEN Fail(step, Loaded(st, r.loads))
    ELSE Going([Loaded(st, r.loads) EXCEPT
                   !.morph_cache = IF r.tokens # NoTokens THEN r.tokens ELSE @,
                   !.ctx = IF r.tokens # NoTokens THEN Put(@, step.name, r.tokens) ELSE @])

\* what dispatch_retrieval does with the result r of a lemma_match or
\* lemma_match_surah_filter step: the tokens go to the private morph_cache
\* and the step fails when morph_cache is still None; nothing goes to ctx
AfterLemmaStep(r, step, st) ==
    IF r.raised # "no" THEN Raising(r.raised, Loaded(st, r.loads))
    ELSE IF r.tokens = NoTokens /\ st.morph_cache = <<>>
    THEN Fail(step, Loaded(st, r.loads))
    ELSE Going([Loaded(st, r.loads) EXCEPT
                   !.morph_cache = IF r.tokens # NoTokens THEN r.tokens ELSE @])

\* the root_match step: postponed to the normal retrieval branch, so its
\* tokens go to ctx and not to morph_cache
AfterRootMatch(r, step, st) ==
    IF r.raised # "no" THEN Raising(r.raised, Loaded(st, r.loads))
    ELSE Store(step, Loaded(st, r.loads), r.tokens # NoTokens, r.tokens,
               IF r.tokens # NoTokens THEN <<"Found tokens with root">>
               ELSE <<"Root not found in morphology DB.">>)

\* the root_lookup_combined step, r being the outcome of its lookups
AfterRootLookup(r, step, st) ==
    IF r.raised # "no" THEN Raising(r.raised, st)
    ELSE Store(step, st, r.data # <<>>, IF r.data # <<>> THEN r.data[1] ELSE <<>>, r.note)

\* the ayah_extraction step: the surah of the call is stored in
\* ayah_extraction._SURAH_FILTER, then ayah_extraction(target) is called
\* twice, the second time by the normal retrieval branch; only the second
\* result (data) is used
AfterAyahExtraction(result, data, step, st, surah) ==
    Store(step, [Loaded(st, result.loads \cup data.loads) EXCEPT !.filter = surah],
          data.data # <<>>, data.data, data.note)

\* the topic_expansion step: called twice as well; when the second call
\* gave data, ctx keeps the result of the first call with the second note
AfterTopicExpansion(result, data, step, st) ==
    Store(step, Loaded(st, result.loads \cup data.loads), data.ok,
          [ok |-> result.ok, root_list |-> result.root_list], data.note)

\* the extract_root step
postprocess_extract_root(ctx, e) == Put(Put(ctx, "root_note", e.note), "root", e.root)

\* roots of the attach_sample_ayahs step
TopicRoots(ctx) ==
    IF "topic_expansion" \in DOMAIN ctx /\ ctx["topic_expansion"].ok
    THEN ctx["topic_expansion"].root_list
    ELSE <<>>

\* the attach_sample_ayahs step; _ayahs_by_root_exact builds its verse map
\* from _all_morph_tokens() on its first call
postprocess_attach(st, roots, samples) ==
    [st EXCEPT !.ctx = IF DOMAIN samples # {} THEN Put(@, "root_samples", samples) ELSE @,
               !.loads = IF roots # <<>>
                         THEN @ \cup {"_all_morph_tokens", "_ayahs_by_root_exact"}
                         ELSE @]

\* a post-processing step
RunPostprocess(step, st, in) ==
    IF step.name = "count" /\ st.morph_cache # <<>>
    THEN Going([st EXCEPT !.ctx = postprocess_count(@, st.morph_cache)])
    ELSE IF step.name = "extract_root" /\ st.morph_cache # <<>>
    THEN Going([st EXCEPT !.ctx = postprocess_extract_root(@,
                   ExtractedRoot(st.morph_cache, in.target,
                                 smart_exact_match(in.target, in.toks_file)))])
    ELSE IF step.name = "attach_sample_ayahs"
    THEN Going(postprocess_attach(st, TopicRoots(st.ctx),
                                  Samples(TopicRoots(st.ctx), in.tokens_all)))
    ELSE Going(st)

\* a retrieval step
RunMethod(step, st, in) ==
    CASE step.name = "lemma_match" ->
            AfterLemmaStep(lemma_match(in.target, in.toks_file, in.tokens_all), step,
                           Invoke(st, step.name, in.target))
      [] step.name = "lemma_match_surah_filter" ->
            AfterLemmaStep(lemma_match_surah_filter(in.target, in.surah, in.toks_file,
                                                    in.tokens_all), step,
                           Invoke(st, step.name, in.target))
      [] step.name = "root_match" ->
            AfterRootMatch(root_match(in.target, in.toks_file, in.tokens_all), step,
                           Invoke(st, step.name, in.target))
      [] step.name = "root_lookup_combined" ->
            AfterRootLookup(
                LookupWithRetry(root_lookup_combined(RootArg(st.morph_cache, in.target),
                                                     in.rows),
                                RootArg(st.morph_cache, in.target), in.target, in.rows),
                step,
                InvokeLookup(st, root_lookup_combined(RootArg(st.morph_cache, in.target),
                                                      in.rows),
                             RootArg(st.morph_cache, in.target), in.target))
      [] step.name = "domain_classification" ->
            Store(step, Invoke(st, step.name, in.target), TRUE,
                  domain_classification(in.target).data,
                  domain_classification(in.target).note)
      [] step.name = "ayah_extraction" ->
            AfterAyahExtraction(
                ayah_extraction(in.target, in.surah, in.env.rsp1, in.toks_file),
                ayah_extraction(in.target, in.surah, in.env.rsp2, in.toks_file),
                step, InvokeTwice(st, step.name, in.target), in.surah)
      [] step.name = "topic_expansion" ->
            AfterTopicExpansion(topic_expansion(in.target, in.env.emb1, in.rows),
                                topic_expansion(in.target, in.env.emb2, in.rows),
                                step, InvokeTwice(st, step.name, in.target))

\* iteration i of the loop of dispatch_retrieval
RunStep(step, i, st, in) ==
    IF step.kind = "postprocess"
    THEN RunPostprocess(step, [st EXCEPT !.trace = Append(@, i)], in)
    ELSE RunMethod(step, [st EXCEPT !.trace = Append(@, i)], in)

RECURSIVE RunSteps(_, _, _, _)

\* the end of an iteration: return or raise, or go on with the next step
NextStep(r, steps, i, in) ==
    IF r.stop THEN [raised |-> r.raised, st |-> r.st]
    ELSE RunSteps(steps, i + 1, r.st, in)

\* the loop of dispatch_retrieval from step i on
RunSteps(steps, i, st, in) ==
    IF i > Len(steps) THEN [raised |-> "no", st |-> st]
    ELSE NextStep(RunStep(steps[i], i, st, in), steps, i, in)

\* the bundle returned for a question type that is not in the table
unknown_slug_plain(question_type) ==
    Put(EmptyCtx, "error_message", <<"Unknown question_type slug">>)

unknown_slug(question_type) ==
    Put(EmptyCtx, "error_message", <<"Unknown question_type slug: ", question_type>>)

\* dispatch_retrieval(question_type, target, surah); in holds the
\* arguments, the files read and the answers of the external services, and
\* filter is the value of ayah_extraction._SURAH_FILTER at the call
dispatch_retrieval(question_type, in, filter) ==
    IF question_type \notin DOMAIN DISPATCH_TABLE
    THEN [raised |-> "no",
          st |-> [StartState(filter) EXCEPT !.ctx = unknown_slug(question_type)]]
    ELSE RunSteps(DISPATCH_TABLE[question_type], 1, StartState(filter), in)

-----------------------------------------------------------------------------
(* Words and corpus lines used as inputs *)

AL == <<"A", "L">>
Ehn == <<"E", "H", "N">>
Wfd == <<"W", "F", "D">>
Sjd == <<"S", "J", "D">>
Hq == <<"H", "Q">>
Qrr == <<"Q", "R", "R">>

\* a corpus: at most MaxTokens lines, no two with the same word and token_index
WellFormed(c) ==
    \A i, j \in 1..Len(c) :
        i < j => <<_group_key(c[i]), c[i].token_index>> # <<_group_key(c[j]), c[j].token_index>>

Corpora(pool) == {c \in Strings(pool, MaxTokens) : WellFormed(c)}

surface_norm(toks_all, key) == normalize(_concat(Group(toks_all, key)))

\* position of a key in the scan order (0 when absent)
KeyPos(toks_all, key) ==
    LET keys == GroupKeys(toks_all)
        at == {i \in 1..Len(keys) : keys[i] = key}
    IN  IF at = {} THEN 0 ELSE CHOOSE i \in at : TRUE

-----------------------------------------------------------------------------
(* Specification SpecMatch: smart_exact_match over a corpus file.          *)

MatchTokens ==
    { Tok(1, 1, 1, 1, <<"K", "Fa">> \o AL \o Ehn, Ehn, Ehn),
      Tok(1, 1, 2, 1, <<"K", "Fa">>, Null, Null),
      Tok(1, 1, 2, 2, AL \o Ehn, Ehn, Ehn),
      Tok(1, 2, 1, 1, Wfd \o <<"Tn", "A">>, Wfd, Wfd),
      Tok(2, 1, 1, 1, <<"W", "A", "F", "D">>, Wfd, Wfd),
      Tok(2, 1, 2, 1, <<"Y", "S", "J", "D">>, Null, Sjd),
      Tok(2, 2, 1, 1, <<"A", "S", "J", "D">>, Sjd, Sjd),
      Tok(1, 2, 2, 1, <<"B">> \o AL \o Hq, Hq, <<"H", "Q", "Q">>),
      Tok(2, 2, 2, 1, <<"W", "Fa">>, Null, Null),
      Tok(2, 2, 2, 2, Wfd, Wfd, Wfd) }

MatchQueries ==
    { Ehn, AL \o Ehn, <<"K">> \o AL \o Ehn, Wfd, Wfd \o <<"A">>, Sjd, Hq,
      AL \o Hq, <<"F", "Fa", "D", "A">>, Qrr, <<"W">> \o Wfd }

MatchCall(q) == [op |-> "smart_exact_match", arg |-> q, ret |-> smart_exact_match(q, file)]

InitMatch ==
    /\ file \in Corpora(MatchTokens)
    /\ calls = <<>>
    /\ root_analysis = <<>>
    /\ disk = Readable
    /\ dictionary = <<>>
    /\ FreshProcess

\* smart_exact_match(q)
CallMatch ==
    /\ calls = <<>>
    /\ \E q \in MatchQueries : calls' = <<MatchCall(q)>>
    /\ UNCHANGED <<file, caches, root_analysis, dictionary, disk, threads>>

\* smart_exact_match(w without its final alif), after smart_exact_match(w)
\* for a w of more than 3 characters that ends in alif
CallMatchWithoutAlif ==
    /\ Len(calls) = 1
    /\ Len(calls[1].arg) > 3
    /\ EndsWith(calls[1].arg, <<"A">>)
    /\ calls' = Append(calls, MatchCall(Front(calls[1].arg)))
    /\ UNCHANGED <<file, caches, root_analysis, dictionary, disk, threads>>

NextMatch == CallMatch \/ CallMatchWithoutAlif

SpecMatch == InitMatch /\ [][NextMatch]_vars

\* the first rule, in the order lemma, surface variants, root, that a word
\* satisfies for a query ("none" when it satisfies none)
RuleOf(q, toks) ==
    LET q_norm == normalize(q) IN
    IF LemmaHit(q_norm, toks) THEN "Exact lemma match"
    ELSE IF SurfaceHit(q_norm, toks) THEN "Surface match"
    ELSE IF RootHit(q_norm, toks) THEN "Exact root match"
    ELSE "none"

\* index, in order of first appearance, of the first word satisfying a rule
FirstMatch(q, toks_all) ==
    LET keys == GroupKeys(toks_all)
        hits == {i \in 1..Len(keys) : RuleOf(q, Group(toks_all, keys[i])) # "none"}
    IN  IF hits = {} THEN 0 ELSE CHOOSE i \in hits : \A j \in hits : i <= j

\* C3: smart_exact_match(q) returns the tokens of the first VerseWord, in
\* order of first appearance of its key in the file, that satisfies one of
\* the three rules, reports the first rule that holds for that VerseWord,
\* and returns no tokens with a note naming q exactly when no VerseWord
\* satisfies a rule.
C3_FirstMatchInFileOrder ==
    \A n \in 1..Len(calls) :
        LET q == calls[n].arg
            r == calls[n].ret
            keys == GroupKeys(file)
            i == FirstMatch(q, file)
        IN  IF i = 0
            THEN r.tokens = NoTokens /\ r.note.kind = "not located" /\ r.note.word = q
            ELSE /\ r.tokens = Group(file, keys[i])
                 /\ r.note.key = keys[i]
                 /\ r.note.kind = RuleOf(q, r.tokens)

\* an earlier word matching only by root has won over a later one matching
\* by lemma
C3_Witness ==
    /\ Len(calls) = 1
    /\ calls[1].ret.note.kind = "Exact root match"
    /\ \E k \in 1..Len(GroupKeys(file)) :
          /\ k > KeyPos(file, calls[1].ret.note.key)
          /\ RuleOf(calls[1].arg, Group(file, GroupKeys(file)[k])) = "Exact lemma match"

\* C4 as stated: a word ending in alif and the same word without it always
\* resolve to the same VerseWord (or both to none).
C4_SameVerseWordAlways ==
    Len(calls) = 2 => calls[1].ret.note.key = calls[2].ret.note.key

\* the smaller non-zero of two scan positions (0 when both are 0)
FirstOf(i, j) == IF i = 0 THEN j ELSE IF j = 0 THEN i ELSE IF i < j THEN i ELSE j

\* C4: for a word whose normalized form n has more than 3 characters and
\* ends in alif, and whose form without the final alif normalizes to m = n
\* without its final alif: m is a variant of n; every VerseWord whose
\* normalized surface is n or m satisfies the surface rule for both queries;
\* and both queries resolve to the same VerseWord whenever the first
\* VerseWord either of them matches has normalized surface n or m.
C4_TrailingAlif ==
    Len(calls) = 2 =>
        LET n == normalize(calls[1].arg)
            m == normalize(calls[2].arg)
            keys == GroupKeys(file)
            i1 == KeyPos(file, calls[1].ret.note.key)
            i2 == KeyPos(file, calls[2].ret.note.key)
            i == FirstOf(i1, i2)
        IN  (Len(n) > 3 /\ EndsWith(n, <<"A">>) /\ m = Front(n)) =>
                /\ m \in _variants(n, Null)
                /\ \A k \in 1..Len(keys) :
                      surface_norm(file, keys[k]) \in {n, m} =>
                          /\ SurfaceHit(n, Group(file, keys[k]))
                          /\ SurfaceHit(m, Group(file, keys[k]))
                /\ (i # 0 /\ surface_norm(file, keys[i]) \in {n, m}) => i1 = i2

\* both queries were resolved to a word whose surface is the longer form
C4_Witness ==
    /\ Len(calls) = 2
    /\ normalize(calls[1].arg) = Wfd \o <<"A">>
    /\ calls[2].arg = Wfd
    /\ calls[1].ret.tokens # NoTokens
    /\ calls[1].ret.note.key = calls[2].ret.note.key
    /\ surface_norm(file, calls[1].ret.note.key) = Wfd \o <<"A">>

DetachablePrefixes == {"K", "F", "B", "L", "W"}

Letters == {"A", "Y", "W", "K", "F", "B", "L", "S", "E", "H", "N", "D", "J", "T", "Q", "R"}

LemmasOf(toks_all) ==
    {normalize(toks_all[k].lemma) : k \in {j \in 1..Len(toks_all) : Truthy(toks_all[j].lemma)}}

\* the words of the file whose normalized surface is p + article + s, with p
\* a detachable prefix other than the root-initial letter and s the lemma,
\* of at least 2 letters
C5_Cases ==
    {c \in [key : KeySet(file), p : DetachablePrefixes, s : LemmasOf(file)] :
        LET toks == Group(file, c.key) IN
        /\ surface_norm(file, c.key) = <<c.p>> \o AL \o c.s
        /\ Len(c.s) >= 2
        /\ \A x \in 1..Len(c.s) : c.s[x] \in Letters
        /\ Truthy(toks[1].lemma) /\ normalize(toks[1].lemma) = c.s
        /\ RootInitialOfFirst(toks) # <<c.p>>}

\* C5: for such a word the queries article + s and p + article + s satisfy
\* the surface-variant rule, the query s matches the same word, and
\* smart_exact_match(article + s) reports a surface match at that word when
\* no earlier word matches.
C5_ArticleAndProclitic ==
    \A c \in C5_Cases :
        LET toks == Group(file, c.key) IN
        /\ SurfaceHit(AL \o c.s, toks)
        /\ SurfaceHit(<<c.p>> \o AL \o c.s, toks)
        /\ RuleOf(c.s, toks) # "none"
        /\ \A n \in 1..Len(calls) :
              (calls[n].arg = AL \o c.s /\ FirstMatch(calls[n].arg, file) = KeyPos(file, c.key))
                  => /\ calls[n].ret.note.kind = "Surface match"
                     /\ calls[n].ret.note.key = c.key

\* the article form of a two-letter lemma was looked up and found by surface
C5_Witness ==
    /\ Len(calls) = 1
    /\ calls[1].arg = AL \o Hq
    /\ calls[1].ret.note.kind = "Surface match"
    /\ \E c \in C5_Cases : c.key = calls[1].ret.note.key /\ c.s = Hq

\* C20: in the surface-variant rule both variant sets are computed with the
\* VerseWord's root-initial letter: a call answered by the surface rule has a
\* form common to _variants(normalize(query), root_initial) and
\* _variants(normalize(surface), root_initial), so a query is never matched
\* through removal of a first letter equal to the root-initial letter.
C20_BothSetsUseRootInitial ==
    \A n \in 1..Len(calls) :
        LET r == calls[n].ret IN
        r.note.kind = "Surface match" =>
            LET root_initial == RootInitialOfFirst(r.tokens) IN
            _variants(normalize(calls[n].arg), root_initial)
                \cap _variants(normalize(_concat(r.tokens)), root_initial) # {}

-----------------------------------------------------------------------------
(* Specification SpecExtract: RootAyahExtraction.extract over a corpus.     *)

CorpusTokens ==
    { Tok(1, 1, 1, 1, Sjd, Sjd, Sjd),
      Tok(1, 1, 2, 1, <<"Y", "S", "J", "D">>, Null, Sjd),
      Tok(2, 1, 1, 1, <<"W", "Fa">>, Null, Null),
      Tok(2, 1, 1, 2, <<"S", "J", "Sh", "D">>, <<"S", "J", "Sh", "D">>, Sjd),
      Tok(2, 2, 1, 1, Wfd, Wfd, Wfd),
      Tok(1, 2, 1, 1, <<"A", "S", "J", "D">>, Sjd, Sjd),
      Tok(1, 2, 2, 1, <<"Y", "S", "J", "D">>, Sjd, Null) }

TargetWords == {Sjd, Wfd, <<"S", "J", "Sh", "D">>}

SurahArgs == {NoSurah, 1, 2}

\* what _llm_layer can return: no word (request failed or empty answer), or
\* a word with a confidence below or above the threshold
LLMResponses ==
    { [word |-> Null, confidence |-> 0],
      [word |-> Wfd, confidence |-> 30],
      [word |-> Wfd, confidence |-> 90] }

ExtractCall(q, f, rsp, cache) ==
    [op |-> "extract", arg |-> q, surah_filter |-> f, rsp |-> rsp,
     llm_requests |-> llm_requests(q), query_word |-> QueryWordOf(q, rsp),
     ret |-> extract(q, f, rsp, cache)]

\* the cache extract scans: loaded from the file on the first call
CacheFor == IF FILE_LOADED THEN VERSE_CACHE ELSE file

InitExtract ==
    /\ file \in Corpora(CorpusTokens)
    /\ calls = <<>>
    /\ root_analysis = <<>>
    /\ disk = Readable
    /\ dictionary = <<>>
    /\ FreshProcess

\* RootAyahExtraction().extract(q, f)
CallExtract ==
    /\ calls = <<>>
    /\ \E q \in TargetWords, f \in SurahArgs, rsp \in LLMResponses :
          LET c == ExtractCall(q, f, rsp, CacheFor) IN
          /\ calls' = <<c>>
          /\ VERSE_CACHE' = IF c.ret.raised = "no" THEN CacheFor ELSE VERSE_CACHE
          /\ FILE_LOADED' = (FILE_LOADED \/ c.ret.raised = "no")
    /\ UNCHANGED <<file, morph_tokens, VERSE_MAP, ROOT_STRS, SURAH_FILTER, root_analysis, dictionary, disk, threads>>

\* extract(q, None) after extract(q, f) with a surah filter f
CallExtractUnfiltered ==
    /\ Len(calls) = 1
    /\ calls[1].surah_filter # NoSurah
    /\ \E rsp \in LLMResponses :
          LET c == ExtractCall(calls[1].arg, NoSurah, rsp, CacheFor) IN
          /\ calls' = Append(calls, c)
          /\ VERSE_CACHE' = IF c.ret.raised = "no" THEN CacheFor ELSE VERSE_CACHE
          /\ FILE_LOADED' = (FILE_LOADED \/ c.ret.raised = "no")
    /\ UNCHANGED <<file, morph_tokens, VERSE_MAP, ROOT_STRS, SURAH_FILTER, root_analysis, dictionary, disk, threads>>

NextExtract == CallExtract \/ CallExtractUnfiltered

SpecExtract == InitExtract /\ [][NextExtract]_vars

VerseOf(triple) == <<triple[1], triple[2]>>

\* C6: the list returned by extract is strictly ascending by (surah, ayah),
\* hence holds no (surah, ayah) pair twice.
C6_SortedNoDuplicates ==
    \A n \in 1..Len(calls) :
        LET out == calls[n].ret.triples IN
        \A i, j \in 1..Len(out) : i < j => LexLess(VerseOf(out[i]), VerseOf(out[j]))

\* two words of one verse match and the result has verses of both surahs
C6_Witness ==
    /\ Len(calls) = 1
    /\ Len(calls[1].ret.triples) >= 2
    /\ \E v \in {verse_key(file[i]) : i \in 1..Len(file)} :
          Cardinality({idx \in WordIndexes(file, v) :
              _word_matches(normalize(calls[1].arg), VerseWordTokens(file, v, idx))}) >= 2

\* the verses of the corpus (of surah f when given) with a word matching q
MatchingVerses(q, f) ==
    {v \in {verse_key(file[i]) : i \in 1..Len(file)} : VerseMatches(normalize(q), file, f, v)}

\* C7: extract(q, f) returns exactly the verses (of surah f when given) that
\* contain a word matching normalize(q) by one of the three shadda-
\* insensitive rules; the result depends only on q, f and the corpus.
C7_CompleteForQuery ==
    \A n \in 1..Len(calls) :
        calls[n].ret.raised = "no" =>
            {VerseOf(calls[n].ret.triples[i]) : i \in 1..Len(calls[n].ret.triples)}
                = MatchingVerses(calls[n].arg, calls[n].surah_filter)

\* C8: every triple of extract(q, f) has surah f, and extract(q, f) is the
\* sub-list of extract(q, None) whose surah is f.
C8_FilterIsSublist ==
    Len(calls) = 2 =>
        LET f == calls[1].surah_filter
            with == calls[1].ret.triples
            without == calls[2].ret.triples
        IN  /\ \A i \in 1..Len(with) : with[i][1] = f
            /\ with = SelectSeq(without, LAMBDA t : t[1] = f)

\* C14: the retrieval core never calls a language model: extract(q, f) on
\* a bare word q sends no request to one and scans for q itself.
C14_NoLanguageModel ==
    \A n \in 1..Len(calls) :
        calls[n].op = "extract" =>
            calls[n].llm_requests = 0 /\ calls[n].query_word = calls[n].arg

\* one of the three rules of smart_exact_match accepts the word toks
MatcherAccepts(q_norm, toks) ==
    LemmaHit(q_norm, toks) \/ SurfaceHit(q_norm, toks) \/ RootHit(q_norm, toks)

\* the verses of the triples extract returns
VersesOf(e) == {<<e.triples[i][1], e.triples[i][2]>> : i \in 1..Len(e.triples)}

\* C28: every word of the corpus that one of smart_exact_match's three
\* rules accepts for q is accepted by _word_matches for normalize(q), and
\* the verse of the word smart_exact_match(q) returns is among the verses
\* of extract(q) without surah filter.
C28_ExtractorAcceptsMatched ==
    \A n \in 1..Len(calls) :
        LET c == calls[n] IN
        c.op = "smart_exact_match" =>
            /\ \A key \in KeySet(file) :
                  MatcherAccepts(normalize(c.arg), Group(file, key))
                      => _word_matches(normalize(c.arg), Group(file, key))
            /\ c.ret.tokens # NoTokens =>
                  \A rsp \in LLMResponses :
                      /\ extract(c.arg, NoSurah, rsp, file).raised = "no"
                      /\ <<c.ret.note.key[1], c.ret.note.key[2]>>
                            \in VersesOf(extract(c.arg, NoSurah, rsp, file))

-----------------------------------------------------------------------------
(* Specification SpecDispatch: dispatch_retrieval over a corpus.            *)

\* the slugs of the table and two that are not in it
\* what the language model may answer the classifier: a slug, an index
\* with or without text around it, an index out of range, other text
Replies ==
    {<<LABELS_SLUGS[i]>> : i \in 1..Len(LABELS_SLUGS)}
        \cup {<<"4">>, <<"1", "1">>, <<"(", "7", ")">>, <<"9", "9">>, <<"x">>, <<>>}

QuestionTypes ==
    DOMAIN DISPATCH_TABLE \cup {_llm_label(raw) : raw \in Replies}
        \cup {"no_such_question_type", ""}

\* the tokens _all_morph_tokens() returns: read from the file on first use
AllMorphTokens == IF morph_tokens.loaded THEN morph_tokens.tokens ELSE file

\* a root-analysis file: a row for the root of سجد and a row for another root
DispatchRoots ==
    << Row("1", Sjd, <<"S", "Fa", "J", "Fa", "D">>), Row("2", Null, <<"Ah", "B", "Q">>) >>

\* what the embedding model does in one call of topic_expansion
Embeddings == {"forward", "reverse", "fail"}

\* the answers of the external services during one call: the language
\* model asked by the two calls of ayah_extraction (rsp1, rsp2) and the
\* embedding model used by the two calls of topic_expansion (emb1, emb2)
QuietEnv ==
    [rsp1 |-> [word |-> Null, confidence |-> 0], rsp2 |-> [word |-> Null, confidence |-> 0],
     emb1 |-> "forward", emb2 |-> "forward"]

\* the answers that matter for a question type: the other steps ask nothing
Envs(qt) ==
    IF qt = "root_ayah_extraction"
    THEN {[QuietEnv EXCEPT !.rsp1 = a, !.rsp2 = b] : a, b \in LLMResponses}
    ELSE IF qt = "roots_by_topic"
    THEN {[QuietEnv EXCEPT !.emb1 = a, !.emb2 = b] : a, b \in Embeddings}
    ELSE {QuietEnv}

\* the question types with a root-glossary step: they are also run on a
\* root-analysis file that lacks the first row
LooksUpRoot(qt) ==
    qt \in DOMAIN DISPATCH_TABLE
        /\ \E i \in 1..Len(DISPATCH_TABLE[qt]) :
              DISPATCH_TABLE[qt][i].name = "root_lookup_combined"

InitDispatch ==
    /\ file \in Corpora(CorpusTokens)
    /\ calls = <<>>
    /\ root_analysis \in {DispatchRoots, Tail(DispatchRoots)}
    /\ disk = Readable
    /\ dictionary = <<>>
    /\ FreshProcess

\* the arguments of a call and what it reads
Inputs(t, surah, env) ==
    [target |-> t, surah |-> surah, env |-> env, toks_file |-> file,
     tokens_all |-> AllMorphTokens, rows |-> root_analysis]

DispatchCall(qt, t, surah, env, r) ==
    [op |-> "dispatch_retrieval", question_type |-> qt, arg |-> t, surah |-> surah,
     env |-> env, retrieved |-> r.st.morph_cache, trace |-> r.st.trace,
     invoked |-> r.st.invoked,
     ret |-> [raised |-> r.raised, ctx |-> r.st.ctx]]

\* the caches after a call that populated those named in loads
CachesAfter(loads, filter) ==
    /\ morph_tokens' = IF "_all_morph_tokens" \in loads
                       THEN [loaded |-> TRUE, tokens |-> AllMorphTokens]
                       ELSE morph_tokens
    /\ VERSE_CACHE' = IF "RootAyahExtraction" \in loads THEN file ELSE VERSE_CACHE
    /\ FILE_LOADED' = (FILE_LOADED \/ "RootAyahExtraction" \in loads)
    /\ VERSE_MAP' = IF "_ayahs_by_root_exact" \in loads
                    THEN [loaded |-> TRUE, tokens |-> AllMorphTokens]
                    ELSE VERSE_MAP
    /\ ROOT_STRS' = IF "topic_expansion" \in loads
                    THEN [loaded |-> TRUE, tokens |-> root_analysis]
                    ELSE ROOT_STRS
    /\ SURAH_FILTER' = filter

\* the call with its result r
\* the surah arguments that make a difference: surah is read by the
\* ayah_extraction and lemma_match_surah_filter steps only
Surahs(qt) ==
    IF qt \in DOMAIN DISPATCH_TABLE
          /\ \E i \in 1..Len(DISPATCH_TABLE[qt]) :
                DISPATCH_TABLE[qt][i].name \in {"ayah_extraction", "lemma_match_surah_filter"}
    THEN SurahArgs
    ELSE {NoSurah}

Dispatched(qt, t, surah, env, r) ==
    /\ calls' = <<DispatchCall(qt, t, surah, env, r)>>
    /\ CachesAfter(r.st.loads, r.st.filter)

\* dispatch_retrieval(question_type, target, surah)
CallDispatch ==
    /\ calls = <<>>
    /\ \E qt \in QuestionTypes, t \in TargetWords :
          \E surah \in Surahs(qt), env \in Envs(qt) :
              /\ root_analysis = DispatchRoots \/ LooksUpRoot(qt)
              /\ Dispatched(qt, t, surah, env,
                         dispatch_retrieval(qt, Inputs(t, surah, env), SURAH_FILTER))
    /\ UNCHANGED <<file, root_analysis, dictionary, disk, threads>>

NextDispatch == CallDispatch

SpecDispatch == InitDispatch /\ [][NextDispatch]_vars

\* the words of the whole corpus matching t by lemma equality, by surface-
\* variant intersection or by root equality
UnionMatches(t) == {k \in KeySet(file) : RuleOf(t, Group(file, k)) # "none"}

\* C9: for frequency_word_root without surah, occurrence_count is the number
\* of distinct words of the corpus matching the target by lemma, by surface
\* variant or by root (the union of the three rules).
C9_CountIsUnionOfRules ==
    \A n \in 1..Len(calls) :
        LET c == calls[n] IN
        (c.question_type = "frequency_word_root" /\ c.surah = NoSurah /\ c.ret.raised = "no")
            => /\ UnionMatches(c.arg) # {} => "occurrence_count" \in DOMAIN c.ret.ctx
               /\ "occurrence_count" \in DOMAIN c.ret.ctx
                     => c.ret.ctx["occurrence_count"] = Cardinality(UnionMatches(c.arg))

C11_UnknownTypeOnlyError ==
    [][\A n \in 1..Len(calls') :
          calls'[n].question_type \notin DOMAIN DISPATCH_TABLE =>
              /\ calls'[n].ret.raised = "no"
              /\ DOMAIN calls'[n].ret.ctx = {"error_message"}
              /\ \E i \in 1..Len(calls'[n].ret.ctx["error_message"]) :
                    calls'[n].ret.ctx["error_message"][i] = calls'[n].question_type
              /\ calls'[n].trace = <<>>
              /\ calls'[n].retrieved = <<>>
              /\ UNCHANGED <<caches, file, root_analysis>>]_vars

\* a question type that is not in the table was dispatched
C11_Witness ==
    /\ Len(calls) = 1
    /\ calls[1].question_type = "no_such_question_type"
    /\ "error_message" \in DOMAIN calls[1].ret.ctx

\* the steps of the call's question type
StepsOf(c) == DISPATCH_TABLE[c.question_type]

\* the retrieval step yields no data for the arguments of call c
NoData(c, step) ==
    CASE step.name = "lemma_match" ->
            lemma_match(c.arg, file, file).tokens = NoTokens
      [] step.name = "lemma_match_surah_filter" ->
            lemma_match_surah_filter(c.arg, c.surah, file, file).tokens = NoTokens
      [] step.name = "root_match" -> root_match(c.arg, file, file).tokens = NoTokens
      [] step.name = "ayah_extraction" ->
            ayah_extraction(c.arg, c.surah, c.env.rsp2, file).data = <<>>
      [] step.name = "topic_expansion" ->
            ~topic_expansion(c.arg, c.env.emb2, root_analysis).ok
      [] OTHER -> FALSE

\* the keys a step may write into the bundle
KeysOf(step) ==
    CASE step.name \in {"lemma_match", "lemma_match_surah_filter"} -> {}
      [] step.kind = "method" -> {step.name, NoteKey(step.name)}
      [] step.name = "count" ->
            {"occurrence_count", "occurrence_refs", "occurrence_refs_pretty"}
      [] step.name = "extract_root" -> {"root", "root_note"}
      [] step.name = "attach_sample_ayahs" -> {"root_samples"}

C15_NeverRaises == \A n \in 1..Len(calls) : calls[n].ret.raised = "no"

\* positions in the log of the calls made by step i
InvokedBy(c, i) == {k \in 1..Len(c.invoked) : c.invoked[k].step = i}

\* the tokens retrieved before the root-glossary step: those of the lemma
\* steps (the call-local cache), else those of the root_match step
RetrievedTokens(c) ==
    IF c.retrieved # <<>> THEN c.retrieved
    ELSE IF "root_match" \in DOMAIN c.ret.ctx THEN c.ret.ctx["root_match"]
    ELSE <<>>

\* C23: the root passed to root_lookup_combined is the first non-empty root
\* field among the tokens retrieved by the earlier steps of the call, for
\* lemma steps and root_match steps alike, and the target only when no
\* retrieved token carries a root.
C23_RootOfRetrievedTokens ==
    \A n \in 1..Len(calls) :
        LET c == calls[n] IN
        \A k \in 1..Len(c.invoked) :
            (/\ c.invoked[k].method = "root_lookup_combined"
             /\ \A j \in 1..(k - 1) : c.invoked[j].step # c.invoked[k].step)
                => c.invoked[k].arg = IF FirstRoot(RetrievedTokens(c)) # Null
                                      THEN FirstRoot(RetrievedTokens(c))
                                      ELSE c.arg

\* C24: every returned bundle has the key m_note for every retrieval step,
\* with method m, that the call executed.
C24_NoteForEveryStep ==
    \A n \in 1..Len(calls) :
        LET c == calls[n] IN
        (c.ret.raised = "no" /\ c.question_type \in DOMAIN DISPATCH_TABLE) =>
            \A k \in 1..Len(c.trace) :
                StepsOf(c)[c.trace[k]].kind = "method"
                    => NoteKey(StepsOf(c)[c.trace[k]].name) \in DOMAIN c.ret.ctx

\* the root-glossary step of call c finds no row, with the derived root and
\* with the target
LookupFindsNothing(c) ==
    LookupWithRetry(root_lookup_combined(RootArg(c.retrieved, c.arg), root_analysis),
                    RootArg(c.retrieved, c.arg), c.arg, root_analysis).data = <<>>

\* C25: a retrieval step without on_fail is optional: when the root-glossary
\* step finds no row, also after its retry with the target, the bundle has
\* no data key for it and no error_message, and every later step of the
\* sequence is executed.
C25_OptionalStep ==
    \A n \in 1..Len(calls) :
        LET c == calls[n] IN
        (c.ret.raised = "no" /\ c.question_type \in DOMAIN DISPATCH_TABLE) =>
            \A k \in 1..Len(c.trace) :
                (/\ StepsOf(c)[c.trace[k]].name = "root_lookup_combined"
                 /\ StepsOf(c)[c.trace[k]].on_fail = ""
                 /\ LookupFindsNothing(c))
                    => /\ "root_lookup_combined" \notin DOMAIN c.ret.ctx
                       /\ "error_message" \notin DOMAIN c.ret.ctx
                       /\ c.trace = [i \in 1..Len(StepsOf(c)) |-> i]
                       /\ \A i \in (c.trace[k] + 1)..Len(StepsOf(c)) :
                             /\ InvokedBy(c, i) # {}
                             /\ StepsOf(c)[i].name \in DOMAIN c.ret.ctx

\* the root-glossary step of a semantic_domain_root call found no row, the
\* bundle has its note only, and the domain_classification step ran
C25_Witness ==
    /\ Len(calls) = 1
    /\ calls[1].ret.raised = "no"
    /\ calls[1].question_type = "semantic_domain_root"
    /\ calls[1].trace = <<1, 2, 3>>
    /\ "domain_classification" \in DOMAIN calls[1].ret.ctx
    /\ "root_lookup_combined_note" \in DOMAIN calls[1].ret.ctx
    /\ "root_lookup_combined" \notin DOMAIN calls[1].ret.ctx

\* C26: no returned bundle has the key lemma_match or
\* lemma_match_surah_filter; the tokens of those steps stay in the cache of
\* the call, where the count and extract_root steps read them.
C26_LemmaTokensNotInBundle ==
    \A n \in 1..Len(calls) :
        LET c == calls[n] IN
        /\ DOMAIN c.ret.ctx \cap {"lemma_match", "lemma_match_surah_filter"} = {}
        /\ (c.ret.raised = "no" /\ "occurrence_count" \in DOMAIN c.ret.ctx)
              => c.ret.ctx["occurrence_count"] = Cardinality(KeySet(c.retrieved))
        /\ (c.ret.raised = "no" /\ "root" \in DOMAIN c.ret.ctx /\ c.retrieved # <<>>
               /\ FirstRoot(c.retrieved) # Null)
              => c.ret.ctx["root"] = FirstRoot(c.retrieved)

\* a lemma step retrieved tokens, a later step read them, and the bundle
\* holds what that step made of them
C26_Witness ==
    /\ Len(calls) = 1
    /\ calls[1].question_type = "root_extraction"
    /\ Len(calls[1].retrieved) > 1
    /\ calls[1].ret.raised = "no"
    /\ "root" \in DOMAIN calls[1].ret.ctx
    /\ calls[1].retrieved[1].root = Null

\* C30: every slug the classifier can return has an entry in
\* DISPATCH_TABLE: _llm_label returns a member of LABELS_SLUGS for every
\* reply, and no call of dispatch_retrieval with a member of LABELS_SLUGS
\* ends, no step run, in the bundle that holds the unknown-type
\* error_message only.
C30_EverySlugDispatched ==
    /\ \A raw \in Replies : _llm_label(raw) \in Slugs
    /\ \A n \in 1..Len(calls) :
          calls[n].question_type \in Slugs =>
              ~(calls[n].trace = <<>> /\ DOMAIN calls[n].ret.ctx = {"error_message"})

\* C29: each retrieval step of a call invokes its retrieval function
\* once (no function is called twice with the same argument), and the data
\* and the note stored for the step come from that one invocation: a stored
\* topic_expansion result is a successful one.
C29_OneInvocationPerStep ==
    \A n \in 1..Len(calls) :
        LET c == calls[n] IN
        /\ \A j, k \in 1..Len(c.invoked) : j < k => c.invoked[j] # c.invoked[k]
        /\ (c.ret.raised = "no" /\ "topic_expansion" \in DOMAIN c.ret.ctx)
              => c.ret.ctx["topic_expansion"].ok

-----------------------------------------------------------------------------
(* Specification SpecRoot: root_lookup_combined over a root-analysis file   *)
(* and lookup_definition over a dictionary file, up to two lookups of one   *)
(* kind on the same file.                                                  *)

Abq == <<"A", "B", "Q">>

\* rows with the root vocalised and root_stripped bare, with root_stripped
\* absent or empty, and two rows (2 and 3) with the same normalized root
RootRows ==
    { Row("1", Sjd, <<"S", "Fa", "J", "Fa", "D">>),
      Row("2", Null, <<"Ah", "B", "Q">>),
      Row("3", <<>>, Abq),
      Row("4", <<"H", "D", "Ym">>, <<"H", "Du", "D", "Ym">>),
      Row("5", Wfd, Sjd) }

RootQueries ==
    { Sjd, Wfd, Abq, <<"Ah", "B", "Q">>, <<"Ai", "B", "Q">>, <<"H", "D", "Y">>,
      <<"S", "Ks", "J", "Su", "D">>, <<"S", "J", "D", "Tn">>, Qrr }

Sjdt == <<"S", "J", "D", "Tm">>

\* entries with a headword in ta marbuta and one in alif maqsura
DictEntries == { Entry(Sjdt, "1"), Entry(<<"H", "D", "Ym">>, "2") }

DictQueries ==
    { Sjdt, <<"S", "J", "D", "H">>, <<"S", "Fa", "J", "Su", "D", "Fa", "Tm">>,
      <<"H", "D", "Ym">>, <<"H", "D", "Y">>, Qrr }

InitRoot ==
    /\ file = <<>>
    /\ calls = <<>>
    /\ root_analysis \in Strings(RootRows, MaxRows)
    /\ disk = Readable
    /\ dictionary \in Strings(DictEntries, MaxEntries)
    /\ root_analysis = <<>> \/ dictionary = <<>>
    /\ FreshProcess

\* root_lookup_combined(r)
CallRootLookup ==
    /\ Len(calls) < 2
    /\ \A n \in 1..Len(calls) : calls[n].op = "root_lookup_combined"
    /\ \E r \in RootQueries :
          calls' = Append(calls, [op |-> "root_lookup_combined", arg |-> r,
                                  ret |-> root_lookup_combined(r, root_analysis)])
    /\ UNCHANGED <<file, caches, root_analysis, dictionary, disk, threads>>

\* lookup_definition(w)
CallLookupDefinition ==
    /\ Len(calls) < 2
    /\ \A n \in 1..Len(calls) : calls[n].op = "lookup_definition"
    /\ \E w \in DictQueries :
          calls' = Append(calls, [op |-> "lookup_definition", arg |-> w,
                                  ret |-> lookup_definition(w, dictionary)])
    /\ UNCHANGED <<file, caches, root_analysis, dictionary, disk, threads>>

NextRoot == CallRootLookup \/ CallLookupDefinition

SpecRoot == InitRoot /\ [][NextRoot]_vars

\* the lines of the file whose root equals r after root normalization
RowsFor(r) ==
    {i \in 1..Len(root_analysis) :
        _normalize_root(EntryRoot(root_analysis[i])) = _normalize_root(r)}

\* C13: root_lookup_combined(r) never raises; it returns the first row, in
\* file order, whose root (root_stripped, else root) equals r after root
\* normalization when there is one, and otherwise no row and a note that
\* cites r.
C13_FirstRowOrNote ==
    \A n \in 1..Len(calls) :
        LET c == calls[n] IN
        c.op = "root_lookup_combined" =>
        /\ c.ret.raised = "no"
        /\ RowsFor(c.arg) # {} =>
              \E i \in RowsFor(c.arg) :
                  /\ \A j \in RowsFor(c.arg) : i <= j
                  /\ c.ret.data = <<root_analysis[i]>>
        /\ RowsFor(c.arg) = {} => c.ret.data = <<>> /\ IsSubstring(c.arg, c.ret.note)

\* two different rows of the file have the root looked up, after a row that
\* has not, and the first of the two came back
C13_Witness ==
    /\ Len(calls) = 1
    /\ calls[1].op = "root_lookup_combined"
    /\ \E i, j \in RowsFor(calls[1].arg) :
          /\ 1 < i /\ i < j
          /\ root_analysis[i] # root_analysis[j]
          /\ calls[1].ret.data = <<root_analysis[i]>>

\* normalize extended with the two further replacements of _normalize_root
ExtendedNormalize(k) == Replace(Replace(normalize(k), "Ym", "Y"), "Tm", "H")

\* C27: root_lookup_combined and lookup_definition compare keys under
\* normalize extended with ta marbuta to ha and alif maqsura to ya: two
\* lookups of the same kind on the same file, with keys whose extended
\* normalizations are equal, return the same row or entry (or both none).
C27_SameNormalization ==
    \A m, n \in 1..Len(calls) :
        (/\ calls[m].op = calls[n].op
         /\ ExtendedNormalize(calls[m].arg) = ExtendedNormalize(calls[n].arg))
            => calls[m].ret.data = calls[n].ret.data

-----------------------------------------------------------------------------
(* Specification SpecVariants: _variants applied to a word and a root      *)
(* initial, with and without one.                                          *)

VariantChars == {"W", "S", "Y", "A", "L", "D", "Tn"}

RootInitials == {Null, <<>>, <<"W">>, <<"S">>}

InitVariants ==
    /\ file = <<>>
    /\ calls = <<>>
    /\ root_analysis = <<>>
    /\ disk = Readable
    /\ dictionary = <<>>
    /\ FreshProcess

\* _variants(w, root_initial)
CallVariants ==
    /\ calls = <<>>
    /\ \E w \in Strings(VariantChars, MaxWordLen), ri \in RootInitials :
          calls' = <<[op |-> "_variants", arg |-> w, root_initial |-> ri,
                      ret |-> _variants(w, ri)]>>
    /\ UNCHANGED <<file, caches, root_analysis, dictionary, disk, threads>>

\* longer words: an optional proclitic, an optional article, a stem that may
\* hold tanween marks, an optional trailing alif
LongWords ==
    {p \o a \o b \o s : p \in {<<>>, <<"W">>}, a \in {<<>>, AL},
                        b \in Strings({"D", "Tn", "Ti", "Tu"}, MaxStemLen),
                        s \in {<<>>, <<"A">>}}

\* _variants(w, root_initial) on a longer word
CallVariantsLong ==
    /\ calls = <<>>
    /\ \E w \in LongWords, ri \in RootInitials :
          calls' = <<[op |-> "_variants", arg |-> w, root_initial |-> ri,
                      ret |-> _variants(w, ri)]>>
    /\ UNCHANGED <<file, caches, root_analysis, dictionary, disk, threads>>

NextVariants == CallVariants \/ CallVariantsLong

SpecVariants == InitVariants /\ [][NextVariants]_vars

\* C19: for every word w and every root_initial, none included, the set
\* returned by _variants(w, root_initial) contains w itself.
C19_ContainsTheWord ==
    \A n \in 1..Len(calls) : calls[n].arg \in calls[n].ret

\* a word beginning with a proclitic and ending in alif, given with no root
\* initial, whose variants hold more than two forms
C19_Witness ==
    /\ Len(calls) = 1
    /\ Len(calls[1].arg) > 3
    /\ EndsWith(calls[1].arg, <<"A">>)
    /\ calls[1].arg[1] \in _PROCLITICS
    /\ calls[1].root_initial = Null
    /\ Cardinality(calls[1].ret) > 2

\* the conditions of the proclitic rule for a word w and a root initial r
ProcliticRemovable(w, r) ==
    /\ Len(w) > 3
    /\ w[1] \in _PROCLITICS
    /\ ~(Truthy(r) /\ <<w[1]>> = r)
    /\ w[1] = "S" => w[2] \in _IMPF_PREFIXES

\* the other rules give the word without its first character: that character
\* is the word's only tanween mark of its kind, or the word is a run of more
\* than 3 alifs, which loses its last
TailByOtherRule(w) ==
    \/ w[1] \in TANWEEN /\ ~Contains(Tail(w), w[1])
    \/ Len(w) > 3 /\ \A i \in 1..Len(w) : w[i] = "A"

\* C21: the set returned by _variants(w, r) contains w without its first
\* character if and only if len(w) > 3, w[0] is a proclitic, w[0] differs
\* from r when r is given, and a leading seen is followed by an imperfect
\* prefix; at most one leading proclitic is removed.
C21_ProcliticRuleIff ==
    \A n \in 1..Len(calls) :
        LET w == calls[n].arg IN
        /\ (IF w = <<>> THEN w ELSE Tail(w)) \in calls[n].ret
               <=> ProcliticRemovable(w, calls[n].root_initial)
        /\ (Len(w) >= 2 /\ w[1] \in _PROCLITICS /\ w[2] \in _PROCLITICS)
               => Drop(w, 2) \notin calls[n].ret

\* C21 as amended: for a non-empty word, the set contains the word without
\* its first character if and only if the proclitic rule's conditions hold
\* or the tanween or trailing-alif rule happens to give that same string; a
\* second leading proclitic is never removed.
C21_ProcliticRule ==
    \A n \in 1..Len(calls) :
        LET w == calls[n].arg IN
        w # <<>> =>
            /\ Tail(w) \in calls[n].ret
                   <=> (ProcliticRemovable(w, calls[n].root_initial) \/ TailByOtherRule(w))
            /\ (Len(w) >= 2 /\ w[1] \in _PROCLITICS /\ w[2] \in _PROCLITICS)
                   => Drop(w, 2) \notin calls[n].ret

\* a word beginning with seen and an imperfect prefix lost its seen, and a
\* second proclitic stayed
C21_Witness ==
    /\ Len(calls) = 1
    /\ Len(calls[1].arg) > 3
    /\ calls[1].arg[1] = "W"
    /\ calls[1].arg[2] = "S"
    /\ calls[1].arg[3] = "Y"
    /\ calls[1].root_initial = <<"S">>
    /\ Tail(calls[1].arg) \in calls[1].ret

\* C22: for every word and every root_initial, _variants returns a set of at
\* most 8 strings.
C22_AtMostEight ==
    \A n \in 1..Len(calls) : Cardinality(calls[n].ret) <= 8

\* C22 as amended: _variants returns at most 15 strings, and at most 6 for a
\* word that holds no tanween mark.
C22_AtMostFifteen ==
    \A n \in 1..Len(calls) :
        /\ Cardinality(calls[n].ret) <= 15
        /\ (\A c \in TANWEEN : ~Contains(calls[n].arg, c)) => Cardinality(calls[n].ret) <= 6

\* a word with a proclitic, the article, the three tanween marks and a
\* trailing alif has 15 variants
C22_Witness ==
    /\ Len(calls) = 1
    /\ calls[1].arg = <<"W">> \o AL \o <<"Tn", "Ti", "Tu", "A">>
    /\ Cardinality(calls[1].ret) = 15

-----------------------------------------------------------------------------
(* Specification SpecIsolation: requests for root_ayah_extraction running  *)
(* dispatch_retrieval at the same time on the threads of the API's         *)
(* executor.  The only step of that question type is ayah_extraction; a    *)
(* request stores its surah in ayah_extraction._SURAH_FILTER, calls        *)
(* ayah_extraction(target), which reads that attribute, and calls it again *)
(* in the normal retrieval branch.  A thread can be preempted between any  *)
(* two of these.                                                           *)

IsolationFile ==
    << Tok(1, 1, 1, 1, Sjd, Sjd, Sjd),
       Tok(2, 1, 1, 1, Sjd, Sjd, Sjd),
       Tok(2, 2, 1, 1, Wfd, Wfd, Wfd) >>

Requests == 1..MaxRequests

\* a request before its first step
Request(t, surah) ==
    [pc |-> "start", target |-> t, surah |-> surah, env |-> QuietEnv,
     result |-> <<>>, ret |-> <<>>]

InitIsolation ==
    /\ file = IsolationFile
    /\ calls = <<>>
    /\ root_analysis = <<>>
    /\ disk = Readable
    /\ dictionary = <<>>
    /\ VERSE_CACHE = <<>> /\ FILE_LOADED = FALSE /\ morph_tokens = NotLoaded
    /\ VERSE_MAP = NotLoaded /\ ROOT_STRS = NotLoaded /\ SURAH_FILTER = NoSurah
    /\ threads \in [Requests -> {Request(Sjd, surah) : surah \in SurahArgs}]

\* ayah_extraction._SURAH_FILTER = surah (or None)
InjectFilter(i) ==
    /\ threads[i].pc = "start"
    /\ SURAH_FILTER' = threads[i].surah
    /\ threads' = [threads EXCEPT ![i].pc = "injected"]
    /\ UNCHANGED <<file, calls, VERSE_CACHE, FILE_LOADED, morph_tokens, VERSE_MAP,
                   ROOT_STRS, root_analysis, dictionary, disk>>

\* result, note = ayah_extraction(target): the primary call
PrimaryCall(i) ==
    /\ threads[i].pc = "injected"
    /\ \E rsp \in LLMResponses :
          LET result == ayah_extraction(threads[i].target, SURAH_FILTER, rsp, CacheFor) IN
          /\ threads' = [threads EXCEPT ![i].pc = "called", ![i].env.rsp1 = rsp,
                                        ![i].result = result]
          /\ VERSE_CACHE' = IF "RootAyahExtraction" \in result.loads THEN file ELSE VERSE_CACHE
          /\ FILE_LOADED' = (FILE_LOADED \/ "RootAyahExtraction" \in result.loads)
    /\ UNCHANGED <<file, calls, morph_tokens, VERSE_MAP, ROOT_STRS, SURAH_FILTER,
                   root_analysis, dictionary, disk>>

\* data, note = func(target): the second call, whose data goes to ctx; the
\* function then returns ctx
SecondCall(i) ==
    /\ threads[i].pc = "called"
    /\ \E rsp \in LLMResponses :
          LET data == ayah_extraction(threads[i].target, SURAH_FILTER, rsp, CacheFor)
              r == AfterAyahExtraction(threads[i].result, data,
                                       DISPATCH_TABLE["root_ayah_extraction"][1],
                                       StartState(SURAH_FILTER), SURAH_FILTER)
          IN
          /\ threads' = [threads EXCEPT ![i].pc = "done", ![i].env.rsp2 = rsp,
                                        ![i].ret = [raised |-> r.raised, ctx |-> r.st.ctx]]
          /\ VERSE_CACHE' = IF "RootAyahExtraction" \in data.loads THEN file ELSE VERSE_CACHE
          /\ FILE_LOADED' = (FILE_LOADED \/ "RootAyahExtraction" \in data.loads)
    /\ UNCHANGED <<file, calls, morph_tokens, VERSE_MAP, ROOT_STRS, SURAH_FILTER,
                   root_analysis, dictionary, disk>>

NextIsolation == \E i \in Requests : InjectFilter(i) \/ PrimaryCall(i) \/ SecondCall(i)

SpecIsolation == InitIsolation /\ [][NextIsolation]_vars

\* what the request returns when it runs alone, with the same answers of the
\* language model
Alone(th) ==
    LET r == dispatch_retrieval("root_ayah_extraction",
                                Inputs(th.target, th.surah, th.env), NoSurah)
    IN  [raised |-> r.raised, ctx |-> r.st.ctx]

\* C16: requests are isolated: under every interleaving the ayah-extraction
\* step of a request uses the surah filter passed to that request, so the
\* bundle a request returns is the one it returns when it runs alone.
C16_OwnSurahFilter ==
    \A i \in Requests : threads[i].pc = "done" => threads[i].ret = Alone(threads[i])

-----------------------------------------------------------------------------
(* Specification SpecLoad: first calls of RootAyahExtraction.extract, of   *)
(* _all_morph_tokens and of _ayahs_by_root_exact running at the same time, *)
(* statement by statement, on a file that is readable, missing, or has a   *)
(* line that does not parse.  A thread is at one of:                       *)
(*   check    the test of the flag of its own cache                        *)
(*   tokens   the test of hasattr(_all_morph_tokens, "_cache")             *)
(*   open     opening the file                                             *)
(*   read     the loop over the lines, into a local value                  *)
(*   publish  the assignment of the local value to the shared cache        *)
(*   flag     _FILE_LOADED = True                                          *)
(*   return   return _all_morph_tokens._cache                              *)
(*   map      _ayahs_by_root_exact._VERSE_MAP = _verse_map                 *)
(*   mapflag  _ayahs_by_root_exact._VERSE_CACHE = True                     *)
(*   scan     the lookup over the cache                                    *)

LoadFile ==
    << Tok(1, 1, 1, 1, Sjd, Sjd, Sjd),
       Tok(1, 2, 1, 1, Wfd, Wfd, Wfd) >>

Lookups == {"extract", "_all_morph_tokens", "_ayahs_by_root_exact"}

Disks ==
    {Readable, [exists |-> FALSE, bad_line |-> 0]}
        \cup {[exists |-> TRUE, bad_line |-> n] : n \in 1..Len(LoadFile)}

\* a slip: the flag is set before the file is read
After_flag_first(op, pc) ==
    CASE pc = "check" -> IF op = "extract" THEN "open" ELSE "tokens"
      [] pc = "tokens" -> "open"
      [] pc = "open" -> IF op = "extract" THEN "flag" ELSE "read"
      [] pc = "read" -> "publish"
      [] pc = "publish" -> IF op = "extract" THEN "scan" ELSE "return"
      [] pc = "flag" -> "read"
      [] pc = "return" -> IF op = "_all_morph_tokens" THEN "done" ELSE "map"
      [] pc = "map" -> "mapflag"
      [] pc = "mapflag" -> "scan"
      [] pc = "scan" -> "done"

\* the statement that follows pc in a lookup that has to load
After(op, pc) ==
    CASE pc = "check" -> IF op = "extract" THEN "open" ELSE "tokens"
      [] pc = "tokens" -> "open"
      [] pc = "open" -> "read"
      [] pc = "read" -> "publish"
      [] pc = "publish" -> IF op = "extract" THEN "flag" ELSE "return"
      [] pc = "flag" -> "scan"
      [] pc = "return" -> IF op = "_all_morph_tokens" THEN "done" ELSE "map"
      [] pc = "map" -> "mapflag"
      [] pc = "mapflag" -> "scan"
      [] pc = "scan" -> "done"

Lookup(op) ==
    [op |-> op, pc |-> IF op = "_all_morph_tokens" THEN "tokens" ELSE "check",
     local |-> <<>>, scanned |-> <<>>, raised |-> "no"]

InitLoad ==
    /\ file = LoadFile
    /\ calls = <<>>
    /\ root_analysis = <<>>
    /\ disk \in Disks
    /\ dictionary = <<>>
    /\ VERSE_CACHE = <<>> /\ FILE_LOADED = FALSE /\ morph_tokens = NotLoaded
    /\ VERSE_MAP = NotLoaded /\ ROOT_STRS = NotLoaded /\ SURAH_FILTER = NoSurah
    /\ threads \in [Requests -> {Lookup(op) : op \in Lookups}]

Step(i, pc) == [threads EXCEPT ![i].pc = pc]

Throw(i, what) == [threads EXCEPT ![i].pc = "done", ![i].raised = what]

\* the cache named by the test at pc holds a value already
AlreadyLoaded(op, pc) ==
    IF pc = "tokens" THEN morph_tokens.loaded
    ELSE IF op = "extract" THEN FILE_LOADED
    ELSE VERSE_MAP.loaded

\* if not self.__class__._FILE_LOADED / if not hasattr(...)
TestFlag(i) ==
    /\ threads[i].pc \in {"check", "tokens"}
    /\ threads' = Step(i, IF AlreadyLoaded(threads[i].op, threads[i].pc)
                          THEN (IF threads[i].pc = "tokens" THEN "return" ELSE "scan")
                          ELSE After(threads[i].op, threads[i].pc))
    /\ UNCHANGED <<file, calls, caches, root_analysis, dictionary, disk>>

\* open(...): a missing file raises
OpenFile(i) ==
    /\ threads[i].pc = "open"
    /\ threads' = IF disk.exists
                  THEN [Step(i, After(threads[i].op, "open")) EXCEPT ![i].local = <<>>]
                  ELSE Throw(i, "FileNotFoundError")
    /\ UNCHANGED <<file, calls, caches, root_analysis, dictionary, disk>>

\* one line: json.loads(line) goes to the local value, or raises
ReadLine(i) ==
    /\ threads[i].pc = "read"
    /\ LET n == Len(threads[i].local) + 1 IN
       threads' = IF n > Len(file) THEN Step(i, After(threads[i].op, "read"))
                  ELSE IF disk.bad_line = n THEN Throw(i, "JSONDecodeError")
                  ELSE [threads EXCEPT ![i].local = Append(@, file[n])]
    /\ UNCHANGED <<file, calls, caches, root_analysis, dictionary, disk>>

\* the assignment of the finished local value to the shared attribute
Publish(i) ==
    /\ threads[i].pc \in {"publish", "map"}
    /\ VERSE_CACHE' = IF threads[i].pc = "publish" /\ threads[i].op = "extract"
                      THEN threads[i].local ELSE VERSE_CACHE
    /\ morph_tokens' = IF threads[i].pc = "publish" /\ threads[i].op # "extract"
                       THEN [loaded |-> TRUE, tokens |-> threads[i].local]
                       ELSE morph_tokens
    /\ VERSE_MAP' = IF threads[i].pc = "map"
                    THEN [VERSE_MAP EXCEPT !.tokens = threads[i].local]
                    ELSE VERSE_MAP
    /\ threads' = Step(i, After(threads[i].op, threads[i].pc))
    /\ UNCHANGED <<file, calls, FILE_LOADED, ROOT_STRS, SURAH_FILTER, root_analysis, dictionary, disk>>

\* _FILE_LOADED = True / _ayahs_by_root_exact._VERSE_CACHE = True
SetFlag(i) ==
    /\ threads[i].pc \in {"flag", "mapflag"}
    /\ FILE_LOADED' = (FILE_LOADED \/ threads[i].pc = "flag")
    /\ VERSE_MAP' = IF threads[i].pc = "mapflag"
                    THEN [VERSE_MAP EXCEPT !.loaded = TRUE]
                    ELSE VERSE_MAP
    /\ threads' = Step(i, After(threads[i].op, threads[i].pc))
    /\ UNCHANGED <<file, calls, VERSE_CACHE, morph_tokens, ROOT_STRS, SURAH_FILTER,
                   root_analysis, dictionary, disk>>

\* return _all_morph_tokens._cache
ReturnTokens(i) ==
    /\ threads[i].pc = "return"
    /\ threads' = [Step(i, After(threads[i].op, "return")) EXCEPT
                      ![i].local = morph_tokens.tokens,
                      ![i].scanned = IF threads[i].op = "_all_morph_tokens"
                                     THEN morph_tokens.tokens ELSE @]
    /\ UNCHANGED <<file, calls, caches, root_analysis, dictionary, disk>>

\* the lookup reads the shared cache
Scan(i) ==
    /\ threads[i].pc = "scan"
    /\ threads' = [Step(i, After(threads[i].op, "scan")) EXCEPT
                      ![i].scanned = IF threads[i].op = "extract" THEN VERSE_CACHE
                                     ELSE VERSE_MAP.tokens]
    /\ UNCHANGED <<file, calls, caches, root_analysis, dictionary, disk>>

NextLoad ==
    \E i \in Requests :
        \/ TestFlag(i)
        \/ OpenFile(i)
        \/ ReadLine(i)
        \/ Publish(i)
        \/ SetFlag(i)
        \/ ReturnTokens(i)
        \/ Scan(i)

SpecLoad == InitLoad /\ [][NextLoad]_vars

\* C17: the corpus caches are published all-or-nothing: under every
\* interleaving of first calls each shared cache is unset or holds the whole
\* file, a set flag comes with the whole file, every finished lookup scanned
\* the whole file, and with a missing file or a line that does not parse
\* the caches stay unset.
C17_AllOrNothing ==
    /\ VERSE_CACHE \in {<<>>, file}
    /\ FILE_LOADED => VERSE_CACHE = file
    /\ morph_tokens.tokens = IF morph_tokens.loaded THEN file ELSE <<>>
    /\ VERSE_MAP.tokens \in {<<>>, file}
    /\ VERSE_MAP.loaded => VERSE_MAP.tokens = file
    /\ \A i \in Requests :
          (threads[i].pc = "done" /\ threads[i].raised = "no") => threads[i].scanned = file
    /\ disk # Readable =>
          /\ VERSE_CACHE = <<>> /\ ~FILE_LOADED
          /\ morph_tokens = NotLoaded /\ VERSE_MAP = NotLoaded
          /\ \A i \in Requests : threads[i].pc = "done" => threads[i].raised # "no"

\* two first calls of extract both found the flag unset, both read the whole
\* file and published it, and both lookups are over
C17_Witness ==
    /\ \A i \in Requests :
          /\ threads[i].op = "extract"
          /\ threads[i].pc = "done"
          /\ threads[i].local = file
    /\ FILE_LOADED

-----------------------------------------------------------------------------
(* pipeline/__init__.py and pipeline/retrieval_dispatcher.py               *)
(*                                                                         *)
(* The collaborators of the pipeline (classifier, extractors, prompt       *)
(* builder, language model) are inputs: what each returns, or that it      *)
(* raises.  A run is the sequence of stages entered and the answer.        *)

\* def retrieve_context(question_type: str, target: str): two parameters
retrieve_context_parameters == 2

\* what a call of dispatch_retrieval gives the pipeline
Retrieved(r) ==
    [raised |-> r.raised, ctx |-> r.st.ctx, loads |-> r.st.loads, filter |-> r.st.filter]

\* retrieve_context(*args): a call with another number of arguments raises
\* TypeError; otherwise dispatch_retrieval(question_type, target)
retrieve_context(args, env) ==
    IF Len(args) # retrieve_context_parameters
    THEN [raised |-> "TypeError", ctx |-> EmptyCtx, loads |-> {}, filter |-> SURAH_FILTER]
    ELSE Retrieved(dispatch_retrieval(args[1], Inputs(args[2], NoSurah, env), SURAH_FILTER))

\* the except branch: the generic error answer
GenericError(stages, what, r) ==
    [stages |-> stages, answer |-> <<"generic error", what>>, loads |-> r.loads,
     filter |-> r.filter]

Answer(stages, answer, r) ==
    [stages |-> stages, answer |-> answer, loads |-> r.loads, filter |-> r.filter]

\* Stage 4 and Stage 5
PromptAndLLM(in, stages, r) ==
    IF in.llm = "raise"
    THEN GenericError(stages \o <<"build prompt", "query LLM">>, "LLM", r)
    ELSE Answer(stages \o <<"build prompt", "query LLM">>,
                <<"LLM answer", in.classified, r.ctx>>, r)

\* what follows Stage 3 when it returned the bundle of r
AfterRetrieval(in, stages, r) ==
    IF r.raised # "no" THEN GenericError(stages, r.raised, r)
    ELSE IF in.classified = "root_ayah_extraction"
    THEN IF "ayah_extraction" \in DOMAIN r.ctx
         THEN Answer(stages, <<"ayat">> \o r.ctx["ayah_extraction"], r)
         ELSE Answer(stages, <<"no ayat">>, r)
    ELSE PromptAndLLM(in, stages, r)

\* context1 and context2 of a difference_two_words question, merged
MergeContexts(r1, r2) ==
    IF r1.raised # "no" THEN r1
    ELSE IF r2.raised # "no" THEN r2
    ELSE [r2 EXCEPT !.ctx = [word1 |-> r1.ctx, word2 |-> r2.ctx],
                    !.loads = r1.loads \cup r2.loads]

\* Stage 3
Retrieval(in) ==
    IF in.classified = "difference_two_words" /\ in.extracted.kind = "pair"
    THEN MergeContexts(
             retrieve_context(<<in.classified, in.extracted.word1, in.surah>>, in.env),
             retrieve_context(<<in.classified, in.extracted.word2, in.surah>>, in.env))
    ELSE retrieve_context(<<in.classified, in.extracted.word1, in.surah>>, in.env)

NothingRetrieved == [loads |-> {}, filter |-> SURAH_FILTER]

\* QuranQAPipeline.answer_question(question)
answer_question(in) ==
    IF in.classified = "raise"
    THEN GenericError(<<"classify">>, "classifier", NothingRetrieved)
    ELSE IF in.extracted.kind = "raise"
    THEN GenericError(<<"classify", "extract">>, "extractor", NothingRetrieved)
    ELSE IF in.extracted.kind = "none"
    THEN Answer(<<"classify", "extract">>, <<"which word?">>, NothingRetrieved)
    ELSE AfterRetrieval(in, <<"classify", "extract", "retrieve">>, Retrieval(in))

-----------------------------------------------------------------------------
(* Specification SpecPipeline: answer_question on a question, for every    *)
(* outcome of its collaborators.                                           *)

Extractions ==
    { [kind |-> "raise", word1 |-> <<>>, word2 |-> <<>>],
      [kind |-> "none", word1 |-> <<>>, word2 |-> <<>>],
      [kind |-> "word", word1 |-> Sjd, word2 |-> <<>>],
      [kind |-> "word", word1 |-> Wfd, word2 |-> <<>>],
      [kind |-> "pair", word1 |-> Sjd, word2 |-> Wfd] }

Questions ==
    [classified : DOMAIN DISPATCH_TABLE \cup {"raise"}, extracted : Extractions,
     surah : SurahArgs, llm : {"ok", "raise"}, env : {QuietEnv}]

InitPipeline ==
    /\ file = IsolationFile
    /\ calls = <<>>
    /\ root_analysis = DispatchRoots
    /\ disk = Readable
    /\ dictionary = <<>>
    /\ FreshProcess

\* the run r of a question
Answered(in, r) ==
    /\ calls' = <<[op |-> "answer_question", arg |-> in, stages |-> r.stages,
                   ret |-> r.answer]>>
    /\ CachesAfter(r.loads, r.filter)

\* answer_question(question)
CallAnswerQuestion ==
    /\ calls = <<>>
    /\ \E in \in Questions : Answered(in, answer_question(in))
    /\ UNCHANGED <<file, root_analysis, dictionary, disk, threads>>

NextPipeline == CallAnswerQuestion

SpecPipeline == InitPipeline /\ [][NextPipeline]_vars

\* C18: whenever Stage 2 extracted a target the stages run in the order
\* classify, extract, retrieve, build prompt, query LLM (root_ayah_extraction
\* ends after retrieve with the ayat), and the generic error answer is given
\* only when a collaborator raised.
C18_StagesInOrder ==
    \A n \in 1..Len(calls) :
        LET c == calls[n] IN
        (c.arg.classified # "raise" /\ c.arg.extracted.kind \in {"word", "pair"})
            => /\ c.stages = IF c.arg.classified = "root_ayah_extraction"
                             THEN <<"classify", "extract", "retrieve">>
                             ELSE <<"classify", "extract", "retrieve", "build prompt",
                                    "query LLM">>
               /\ c.ret[1] = "generic error" => c.arg.llm = "raise"

====
